---- MODULE Spec2Model ----
(***************************************************************************)
(* Model of the partnership ads booster                                    *)
(* (src/stats_for_dashboards/partnership_ads_booster.py).                  *)
(*                                                                         *)
(* Python strings are sequences of tokens (a token is a run of characters  *)
(* that holds no "/"; every "/" is a token of its own), so that f-strings  *)
(* are concatenations and "starts with", "contains" and "is empty" are     *)
(* computed on the text.  Python dicts are functions from keys to values.  *)
(***************************************************************************)
EXTENDS Integers, Sequences, FiniteSets, TLC

\* The largest number of data rows of the input CSV.
MaxRows == 2

(***************************************************************************)
(* Python values                                                           *)
(***************************************************************************)
\* None where a string (or a JSON scalar) is expected.
None == <<"<None>">>

\* None where a dict is expected.
NoneDict == [py_none |-> <<>>]

\* The dict {}.
EmptyDict == <<>>

\* JSON true and false.
True == <<"True">>
False == <<"False">>

\* bool(v) of a string, a list, None or a JSON boolean.
Truthy(v) == v # None /\ v # <<>> /\ v # False

\* bool(d) of a dict or None.
DictTruthy(d) == d # NoneDict /\ DOMAIN d # {}

\* d.get(k)
Get(d, k) == IF k \in DOMAIN d THEN d[k] ELSE None

\* d.get(k, default)
GetOr(d, k, default) == IF k \in DOMAIN d THEN d[k] ELSE default

\* v or d
OrElse(v, d) == IF Truthy(v) THEN v ELSE d

\* sep.join(list): the items of the list (one token each) with sep between.
RECURSIVE Join(_, _)
Join(sep, list) ==
    IF Len(list) = 0 THEN <<>>
    ELSE IF Len(list) = 1 THEN <<list[1]>>
    ELSE <<list[1], sep>> \o Join(sep, Tail(list))

\* s.startswith(prefix), both token sequences.
StartsWith(s, prefix) ==
    Len(s) >= Len(prefix) /\ SubSeq(s, 1, Len(prefix)) = prefix

(***************************************************************************)
(* extract_instagram_shortcode                                             *)
(***************************************************************************)
\* Tokens made only of characters of [A-Za-z0-9_-].
CodeTokens == {"p", "reel", "tv", "stories", "abc", "X_1-z", "username", "123456"}

\* Mutant of ContainsStories: only the path right after the host is looked at.
ContainsStoriesAfterHost(s) ==
    \E i \in 2..(Len(s) - 2) :
        s[i - 1] = "instagram.com" /\ s[i] = "/" /\ s[i + 1] = "stories" /\ s[i + 2] = "/"

\* "/stories/" in permalink
ContainsStories(s) ==
    \E i \in 1..(Len(s) - 2) :
        s[i] = "/" /\ s[i + 1] = "stories" /\ s[i + 2] = "/"

\* Mutant of UrlCoreAt: the pattern knows /p/ and /reel/ only.
UrlCoreAtWithoutTv(s, i) ==
    /\ i + 4 <= Len(s)
    /\ s[i] = "instagram.com"
    /\ s[i + 1] = "/"
    /\ s[i + 2] \in {"p", "reel"}
    /\ s[i + 3] = "/"
    /\ s[i + 4] \in CodeTokens

\* Where instagram\.com/(?:p|reel|tv)/([A-Za-z0-9_-]+) matches at token i.
UrlCoreAt(s, i) ==
    /\ i + 4 <= Len(s)
    /\ s[i] = "instagram.com"
    /\ s[i + 1] = "/"
    /\ s[i + 2] \in {"p", "reel", "tv"}
    /\ s[i + 3] = "/"
    /\ s[i + 4] \in CodeTokens

\* The greedy group ([A-Za-z0-9_-]+) from token i on.
RECURSIVE CodeRun(_, _)
CodeRun(s, i) ==
    IF i <= Len(s) /\ s[i] \in CodeTokens
    THEN <<s[i]>> \o CodeRun(s, i + 1)
    ELSE <<>>

\* Mutant of StripSlashes: one trailing "/" is removed.
StripSlashesOneTrailing(s) ==
    IF Len(s) > 0 /\ s[Len(s)] = "/" THEN SubSeq(s, 1, Len(s) - 1) ELSE s

\* permalink.strip("/"): every leading and every trailing "/" removed.
RECURSIVE StripSlashes(_)
StripSlashes(s) ==
    IF Len(s) = 0 THEN s
    ELSE IF Head(s) = "/" THEN StripSlashes(Tail(s))
    ELSE IF s[Len(s)] = "/" THEN StripSlashes(SubSeq(s, 1, Len(s) - 1))
    ELSE s

\* [raised, exc, value]: the shortcode, or the ValueError of a stories URL.
extract_instagram_shortcode(permalink) ==
    IF ~Truthy(permalink)
    THEN [raised |-> FALSE, exc |-> None, value |-> permalink]
    ELSE IF ContainsStories(permalink)
    THEN [raised |-> TRUE,
          exc |-> <<"Stories boosting is not supported by this script">>,
          value |-> None]
    ELSE IF \E i \in 1..Len(permalink) : UrlCoreAt(permalink, i)
    THEN LET first == CHOOSE i \in 1..Len(permalink) :
                          /\ UrlCoreAt(permalink, i)
                          /\ \A j \in 1..(i - 1) : ~UrlCoreAt(permalink, j)
         IN [raised |-> FALSE, exc |-> None,
             value |-> CodeRun(permalink, first + 4)]
    ELSE [raised |-> FALSE, exc |-> None, value |-> StripSlashes(permalink)]

(***************************************************************************)
(* HTTP responses.  A response is [raises, exc, status_code, text, json]:  *)
(* raises says that requests.get/post itself raised (exc is the message),  *)
(* json is the decoded body: a dict, NoneDict for the JSON text null, or   *)
(* JsonInvalid when response.json() raises.                                *)
(***************************************************************************)
JsonInvalid == [py_json_invalid |-> <<>>]

HttpOK == 200

\* response.json(): [raised, exc, value].
ResponseJson(response) ==
    IF response.json = JsonInvalid
    THEN [raised |-> TRUE, exc |-> <<"Expecting value: line 1 column 1 (char 0)">>,
          value |-> NoneDict]
    ELSE [raised |-> FALSE, exc |-> None, value |-> response.json]

\* The TypeError of `"key" in None`.
NoneNotIterable == <<"argument of type 'NoneType' is not iterable">>

\* str(response.status_code)
StatusText(response) == ToString(response.status_code)

(***************************************************************************)
(* The four remote calls of a row.  Each takes the HTTP response its       *)
(* request receives and returns [sent, raised, exc, ...]: sent says that   *)
(* the HTTP request was issued, raised that the function raised.           *)
(***************************************************************************)
fetch_branded_content_advertisable_medias(ad_code, permalinks, response) ==
    LET params ==
            IF Truthy(ad_code) THEN [ad_code |-> ad_code]
            ELSE [permalinks |-> permalinks]
    IN [params |-> params] @@
       (IF ~Truthy(ad_code) /\ Len(permalinks) = 0
        THEN [sent |-> FALSE, raised |-> TRUE,
              exc |-> <<"ad_code or permalinks must be passed">>, value |-> NoneDict]
        ELSE IF response.raises
        THEN [sent |-> TRUE, raised |-> TRUE, exc |-> response.exc, value |-> NoneDict]
        ELSE IF response.status_code = HttpOK
        THEN LET decoded == ResponseJson(response)
                 response_data == decoded.value
             IN IF decoded.raised
                THEN [sent |-> TRUE, raised |-> TRUE, exc |-> decoded.exc,
                      value |-> NoneDict]
                ELSE IF response_data = NoneDict
                THEN [sent |-> TRUE, raised |-> TRUE, exc |-> NoneNotIterable,
                      value |-> NoneDict]
                ELSE IF "data" \in DOMAIN response_data /\ Len(response_data["data"]) > 0
                THEN [sent |-> TRUE, raised |-> FALSE, exc |-> None,
                      value |-> response_data["data"][1]]
                ELSE [sent |-> TRUE, raised |-> FALSE, exc |-> None, value |-> NoneDict]
        ELSE [sent |-> TRUE, raised |-> FALSE, exc |-> None,
              value |-> [error |-> response.text]])

upload_instagram_video(source_instagram_media_id, ad_code, response) ==
    LET params ==
            IF Truthy(ad_code)
            THEN [source_instagram_media_id |-> source_instagram_media_id,
                  partnership_ad_ad_code |-> ad_code, is_partnership_ad |-> True]
            ELSE [source_instagram_media_id |-> source_instagram_media_id]
    IN [params |-> params] @@
       (IF response.raises
        THEN [sent |-> TRUE, raised |-> TRUE, exc |-> response.exc,
              id |-> None, error |-> None]
        ELSE IF response.status_code = HttpOK
        THEN LET decoded == ResponseJson(response)
                 response_data == decoded.value
             IN IF decoded.raised
                THEN [sent |-> TRUE, raised |-> TRUE, exc |-> decoded.exc,
                      id |-> None, error |-> None]
                ELSE IF response_data = NoneDict
                THEN [sent |-> TRUE, raised |-> TRUE, exc |-> NoneNotIterable,
                      id |-> None, error |-> None]
                ELSE IF "id" \in DOMAIN response_data
                THEN [sent |-> TRUE, raised |-> FALSE, exc |-> None,
                      id |-> response_data["id"], error |-> None]
                ELSE [sent |-> TRUE, raised |-> FALSE, exc |-> None, id |-> None,
                      error |-> <<"Video upload: 'id' not found in response data">>]
        ELSE [sent |-> TRUE, raised |-> FALSE, exc |-> None, id |-> None,
              error |-> <<"Video upload failed: ", StatusText(response), " - ">>
                            \o response.text])

create_ad_creative(source_instagram_media_id, ad_code, cta_type, link, app_link, product_set_id, response) ==
    LET params ==
            [call_to_action |->
                 [type |-> cta_type,
                  value |-> IF Truthy(app_link)
                            THEN [link |-> link, app_link |-> app_link]
                            ELSE [link |-> link]]]
            @@ (IF Truthy(ad_code)
                THEN [branded_content |->
                          [instagram_boost_post_access_token |-> ad_code]]
                ELSE [source_instagram_media_id |-> source_instagram_media_id])
            @@ (IF Truthy(product_set_id)
                THEN [degrees_of_freedom_spec |->
                          [creative_features_spec |->
                               [product_extensions |->
                                    [enroll_status |-> <<"OPT_IN">>]]],
                      creative_sourcing_spec |->
                          [associated_product_set_id |-> product_set_id]]
                ELSE EmptyDict)
    IN [params |-> params] @@
       (IF ~Truthy(ad_code) /\ ~Truthy(source_instagram_media_id)
        THEN [sent |-> FALSE, raised |-> TRUE,
              exc |-> <<"ad_code or source_instagram_media_id must be passed">>,
              id |-> None, error |-> None]
        ELSE IF response.raises
        THEN [sent |-> TRUE, raised |-> FALSE, exc |-> None, id |-> None,
              error |-> <<"Creative creation request error: ">> \o response.exc]
        ELSE LET decoded == ResponseJson(response)
                 response_data == decoded.value
             IN IF decoded.raised
                THEN [sent |-> TRUE, raised |-> FALSE, exc |-> None, id |-> None,
                      error |-> <<"Creative creation request error: ">> \o decoded.exc]
                ELSE IF response.status_code = HttpOK
                THEN IF response_data = NoneDict
                     THEN [sent |-> TRUE, raised |-> FALSE, exc |-> None, id |-> None,
                           error |-> <<"Creative creation unknown error: ">>
                                         \o NoneNotIterable]
                     ELSE IF "id" \in DOMAIN response_data
                     THEN [sent |-> TRUE, raised |-> FALSE, exc |-> None,
                           id |-> response_data["id"], error |-> None]
                     ELSE [sent |-> TRUE, raised |-> FALSE, exc |-> None, id |-> None,
                           error |-> <<"Creative creation: 'id' not found in response data">>]
                ELSE [sent |-> TRUE, raised |-> FALSE, exc |-> None, id |-> None,
                      error |-> <<"Creative creation failed: ", StatusText(response),
                                  " - ">> \o response.text])

\* " for ad '<ad_name>' (ad_set_id: <ad_set_id>)"
AdLabel(ad_name, ad_set_id) ==
    <<" for ad '">> \o ad_name \o <<"' (ad_set_id: ">> \o ad_set_id \o <<")">>

\* Mutant of AdParams: the ad is created active.
AdParamsActive(ad_name, ad_set_id, creative_id) ==
    [status |-> <<"ACTIVE">>, name |-> ad_name, adset_id |-> ad_set_id,
     creative |-> [creative_id |-> creative_id]]

\* The params of the POST to /ads.
AdParams(ad_name, ad_set_id, creative_id) ==
    [status |-> <<"PAUSED">>, name |-> ad_name, adset_id |-> ad_set_id,
     creative |-> [creative_id |-> creative_id]]

create_ad(ad_name, ad_set_id, creative_id, response) ==
    LET params == AdParams(ad_name, ad_set_id, creative_id)
    IN [params |-> params] @@
       (IF response.raises
        THEN [sent |-> TRUE, raised |-> FALSE, exc |-> None, id |-> None,
              error |-> <<"Ad creation request error">> \o AdLabel(ad_name, ad_set_id)
                            \o <<": ">> \o response.exc]
        ELSE LET decoded == ResponseJson(response)
                 response_data == decoded.value
             IN IF decoded.raised
                THEN [sent |-> TRUE, raised |-> FALSE, exc |-> None, id |-> None,
                      error |-> <<"Ad creation request error">>
                                    \o AdLabel(ad_name, ad_set_id)
                                    \o <<": ">> \o decoded.exc]
                ELSE IF response.status_code = HttpOK
                THEN IF response_data = NoneDict
                     THEN [sent |-> TRUE, raised |-> TRUE, exc |-> NoneNotIterable,
                           id |-> None, error |-> None]
                     ELSE IF "id" \in DOMAIN response_data
                     THEN [sent |-> TRUE, raised |-> FALSE, exc |-> None,
                           id |-> response_data["id"], error |-> None]
                     ELSE [sent |-> TRUE, raised |-> FALSE, exc |-> None, id |-> None,
                           error |-> <<"Ad creation: 'id' not found in response data for ad name '">>
                                         \o ad_name \o <<"' (ad_set_id: ">>
                                         \o ad_set_id \o <<")">>]
                ELSE [sent |-> TRUE, raised |-> FALSE, exc |-> None, id |-> None,
                      error |-> <<"Ad creation failed">> \o AdLabel(ad_name, ad_set_id)
                                    \o <<": ", StatusText(response), " - ">>
                                    \o response.text])

(***************************************************************************)
(* The remote API: the responses a request of row i can receive.  Ids and  *)
(* texts carry the row number, so that a value of one row is recognisable  *)
(* in the record of another.                                               *)
(***************************************************************************)
RowTag(i) == ToString(i)

TransportError(i) ==
    [raises |-> TRUE, exc |-> <<"Connection aborted ", RowTag(i)>>,
     status_code |-> 0, text |-> <<>>, json |-> JsonInvalid]

BadRequest(i) ==
    [raises |-> FALSE, exc |-> None, status_code |-> 400,
     text |-> <<"Bad Request ", RowTag(i)>>,
     json |-> [error |-> <<"Bad Request ", RowTag(i)>>]]

Ok(body) ==
    [raises |-> FALSE, exc |-> None, status_code |-> HttpOK,
     text |-> <<"body">>, json |-> body]

MediaId(i) == <<"media_", RowTag(i)>>
VideoId(i) == <<"video_", RowTag(i)>>
CreativeId(i) == <<"creative_", RowTag(i)>>
AdId(i) == <<"ad_", RowTag(i)>>

\* The items data[0] of an eligibility response: with or without the
\* permission flag, eligibility errors and the media id.
MediaItems(i) ==
    LET WithId == [id |-> MediaId(i), owner_id |-> <<"owner_", RowTag(i)>>]
        NoErrors == [eligibility_errors |-> <<>>]
        Errors == [eligibility_errors |-> <<"NOT_ELIGIBLE", "EXPIRED">>]
        Perm(b) == [has_permission_for_partnership_ad |-> b]
    IN { WithId @@ Perm(True) @@ NoErrors,
         WithId @@ Perm(False) @@ NoErrors,
         WithId @@ Perm(True) @@ Errors,
         WithId @@ Errors,
         [owner_id |-> <<"owner_", RowTag(i)>>] @@ Perm(True) @@ NoErrors }

EligibilityResponses(i) ==
    {TransportError(i), BadRequest(i), Ok([data |-> <<>>])}
        \cup {Ok([data |-> <<item>>]) : item \in MediaItems(i)}

UploadResponses(i) ==
    {TransportError(i), BadRequest(i), Ok([id |-> <<>>]), Ok([id |-> VideoId(i)])}

CreativeResponses(i) ==
    {BadRequest(i), Ok(EmptyDict), Ok([id |-> CreativeId(i)])}

\* Ok(NoneDict) is a 200 whose body is the JSON text null.
AdResponses(i) ==
    {BadRequest(i), Ok(NoneDict), Ok([id |-> AdId(i)])}

(***************************************************************************)
(* The input CSV as csv.DictReader yields it: every row has the columns of *)
(* the header; a row with more cells than the header also has the key None *)
(* (RestKey) holding the surplus cells.                                    *)
(***************************************************************************)
RestKey == "<None>"

RequiredFields == <<"cta_type", "link", "ad_name", "ad_set_id">>

ResultFields == {"status", "error", "video_id", "creative_id", "published_ad_id"}

BaseRow ==
    [permalink |-> <<"abc">>, ad_code |-> <<>>, ad_set_id |-> <<"adset_123">>,
     cta_type |-> <<"LEARN_MORE">>, link |-> <<"https:", "/", "/", "app.link">>,
     app_link |-> <<>>, ad_name |-> <<"Test Ad">>, product_set_id |-> <<>>]

StoriesUrl ==
    <<"https:", "/", "/", "www.", "instagram.com", "/", "stories", "/",
      "username", "/", "123456", "/">>

\* Rows with a required field empty.
MissingFieldRows ==
    {[BaseRow EXCEPT ![k] = <<>>] : k \in {"cta_type", "link", "ad_name", "ad_set_id"}}
        \cup {[BaseRow EXCEPT !["cta_type"] = <<>>, !["ad_set_id"] = <<>>]}

\* Rows with every required field, and the ways of giving the media: neither,
\* a permalink only (a shortcode, a stories URL), an ad code only, and both;
\* and a row for another ad of another ad set.
MediaRows ==
    {[BaseRow EXCEPT !["permalink"] = <<>>],
     BaseRow,
     [BaseRow EXCEPT !["ad_name"] = <<"Other Ad">>, !["ad_set_id"] = <<"adset_456">>],
     [BaseRow EXCEPT !["permalink"] = StoriesUrl],
     [BaseRow EXCEPT !["permalink"] = <<>>, !["ad_code"] = <<"AdCode">>],
     [BaseRow EXCEPT !["permalink"] = StoriesUrl, !["ad_code"] = <<"AdCode">>]}

\* A row with one cell more than the header.
RaggedRows ==
    {(RestKey :> <<"surplus">>) @@ [BaseRow EXCEPT !["permalink"] = <<>>]}

InputRows == MissingFieldRows \cup MediaRows \cup RaggedRows

(***************************************************************************)
(* State of create_partnership_ads_from_csv                                *)
(***************************************************************************)
VARIABLES
    rows,                       \* the rows read from the input CSV
    idx,                        \* the row of the loop, from 1
    pc,                         \* "row", "upload", "creative", "ad", "done", "exit"
    output_row,                 \* the copy of the current row
    source_instagram_media_id,
    video_id,
    creative_id,
    published_ad_id,
    output_rows,                \* the accumulator of output records
    output_csv,                 \* the output file: NoFile or [fieldnames, records]
    exit_code,                  \* the status of sys.exit, 0 when not called
    calls                       \* history: the remote calls made, in order

vars ==
    <<rows, idx, pc, output_row, source_instagram_media_id, video_id,
      creative_id, published_ad_id, output_rows, output_csv, exit_code, calls>>

NoFile == [py_no_file |-> <<>>]

(***************************************************************************)
(* State of the other entry points.  Each specification runs one entry     *)
(* point and holds the variables of the others at their idle values.       *)
(***************************************************************************)
VARIABLES
    chain,                      \* the pages the remote API serves, in cursor order
    limit,
    only_with_permission,
    include_engagement_metrics,
    url,                        \* the URL of the next page request
    page_params,                \* params of the next page request
    all_medias,
    page_requests,              \* history: the page requests issued, in order
    fetch_pc,                   \* "page", "save", "done", "exit"
    medias_csv,                 \* the output file: NoFile or [fieldnames, records]
    fetch_exit                  \* the status of sys.exit, 0 when not called

fetch_vars ==
    <<chain, limit, only_with_permission, include_engagement_metrics, url,
      page_params, all_medias, page_requests, fetch_pc, medias_csv, fetch_exit>>

VARIABLES
    extract_input,              \* the argument of extract_instagram_shortcode
    extract_pc,                 \* "call", "again", "done"
    extract_result,             \* what the call on extract_input gave
    extract_again               \* what the call on the value of extract_result gave

extract_vars == <<extract_input, extract_pc, extract_result, extract_again>>

VARIABLES
    api_call,                   \* the arguments of make_api_request
    api_response,               \* the response the HTTP request receives
    api_pc,                     \* "call", "done"
    api_requests,               \* history: the HTTP requests issued
    api_result                  \* the pair make_api_request returned

api_vars == <<api_call, api_response, api_pc, api_requests, api_result>>

VARIABLES
    cpas_args,                  \* the arguments of create_cpas_campaign_with_ad_set
    cpas_pc,                    \* "campaign", "ad_set", "done"
    campaign_id,                \* the id create_campaign returned
    cpas_calls,                 \* history: the calls of create_campaign and create_ad_set
    cpas_result                 \* the pair returned

cpas_vars == <<cpas_args, cpas_pc, campaign_id, cpas_calls, cpas_result>>

VARIABLES
    merchant_key,               \* the argument of get_full_onboarding_status
    onboarding_responses,       \* what the three listings answer
    onboarding_pc,              \* "call", "done"
    partnership,                \* what get_partnership_status returned
    onboarding_status           \* status: the dict get_full_onboarding_status returned

onboarding_vars ==
    <<merchant_key, onboarding_responses, onboarding_pc, partnership, onboarding_status>>

VARIABLES
    bulk_action,                \* "approve" or "reject": the bulk function called
    request_ids,                \* its argument
    bulk_idx,                   \* the position of the loop in request_ids, from 1
    bulk_pc,                    \* "loop", "done"
    results,                    \* the dict being built and returned
    attempts                    \* history: the requests attempted, in order

bulk_vars == <<bulk_action, request_ids, bulk_idx, bulk_pc, results, attempts>>

VARIABLES
    session_state,              \* st.session_state: the keys set and their values
    merchant_bm_id,             \* the merchant of the sidebar
    wizard_event                \* history: the last button or form and its outcome

wizard_vars == <<session_state, merchant_bm_id, wizard_event>>

platform_vars == <<cpas_vars, onboarding_vars, bulk_vars, wizard_vars>>

\* create_cpas_campaign_with_ad_set is not called.
CpasIdle ==
    /\ cpas_args = EmptyDict
    /\ cpas_pc = "idle"
    /\ campaign_id = None
    /\ cpas_calls = <<>>
    /\ cpas_result = [data |-> NoneDict, error |-> None]

\* get_full_onboarding_status is not called.
OnboardingIdle ==
    /\ merchant_key = <<>>
    /\ onboarding_responses = EmptyDict
    /\ onboarding_pc = "idle"
    /\ partnership = EmptyDict
    /\ onboarding_status = EmptyDict

\* No bulk approval or rejection is running.
BulkIdle ==
    /\ bulk_action = "idle"
    /\ request_ids = <<>>
    /\ bulk_idx = 1
    /\ bulk_pc = "idle"
    /\ results = EmptyDict
    /\ attempts = <<>>

\* The merchant UI is not open.
WizardIdle ==
    /\ session_state = EmptyDict
    /\ merchant_bm_id = <<>>
    /\ wizard_event = EmptyDict

\* Neither the agency platform nor the merchant platform is running.
PlatformIdle == CpasIdle /\ OnboardingIdle /\ BulkIdle /\ WizardIdle

\* create_partnership_ads_from_csv is not running.
CsvIdle ==
    /\ rows = <<>>
    /\ idx = 1
    /\ pc = "idle"
    /\ output_row = EmptyDict
    /\ source_instagram_media_id = None
    /\ video_id = None
    /\ creative_id = None
    /\ published_ad_id = None
    /\ output_rows = <<>>
    /\ output_csv = NoFile
    /\ exit_code = 0
    /\ calls = <<>>

\* fetch_all_advertisable_medias is not running.
FetchIdle ==
    /\ chain = <<>>
    /\ limit = {}
    /\ only_with_permission = FALSE
    /\ include_engagement_metrics = FALSE
    /\ url = None
    /\ page_params = EmptyDict
    /\ all_medias = <<>>
    /\ page_requests = <<>>
    /\ fetch_pc = "idle"
    /\ medias_csv = NoFile
    /\ fetch_exit = 0

\* extract_instagram_shortcode is not called on its own.
ExtractIdle ==
    /\ extract_input = <<>>
    /\ extract_pc = "idle"
    /\ extract_result = [raised |-> FALSE, exc |-> None, value |-> None]
    /\ extract_again = [raised |-> FALSE, exc |-> None, value |-> None]

\* make_api_request is not called.
ApiIdle ==
    /\ api_call = EmptyDict
    /\ api_response = EmptyDict
    /\ api_pc = "idle"
    /\ api_requests = <<>>
    /\ api_result = [data |-> NoneDict, error |-> None]

Init ==
    /\ FetchIdle
    /\ ExtractIdle
    /\ ApiIdle
    /\ PlatformIdle
    /\ rows \in UNION {[1..n -> InputRows] : n \in 0..MaxRows}
    /\ idx = 1
    /\ pc = "row"
    /\ output_row = EmptyDict
    /\ source_instagram_media_id = None
    /\ video_id = None
    /\ creative_id = None
    /\ published_ad_id = None
    /\ output_rows = <<>>
    /\ output_csv = NoFile
    /\ exit_code = 0
    /\ calls = <<>>

(***************************************************************************)
(* The per-row pipeline                                                    *)
(***************************************************************************)
\* output_row with status, error, video_id, creative_id and published_ad_id
\* assigned.
WithResult(row, status, error, video, creative, ad) ==
    [k \in DOMAIN row \cup ResultFields |->
        CASE k = "status" -> status
          [] k = "error" -> error
          [] k = "video_id" -> video
          [] k = "creative_id" -> creative
          [] k = "published_ad_id" -> ad
          [] OTHER -> row[k]]

Failed == <<"failed">>
Success == <<"success">>

\* Mutant of missing_fields: link is not among the required fields.
missing_fieldsWithoutLink(row) ==
    SelectSeq(<<"cta_type", "ad_name", "ad_set_id">>, LAMBDA k : ~Truthy(Get(row, k)))

\* [k for k, v in required_fields.items() if not v]
missing_fields(row) ==
    SelectSeq(RequiredFields, LAMBDA k : ~Truthy(Get(row, k)))

\* Mutant of ValidationError: a row with both permalink and ad_code is
\* rejected like a row with neither.
ValidationErrorExactlyOne(row) ==
    IF Len(missing_fields(row)) > 0
    THEN <<"Missing required fields: ">> \o Join(", ", missing_fields(row))
    ELSE IF Truthy(GetOr(row, "permalink", <<>>)) = Truthy(GetOr(row, "ad_code", <<>>))
    THEN <<"Either permalink or ad_code must be provided">>
    ELSE None

\* The message of the local validation, None when the row passes it.
ValidationError(row) ==
    IF Len(missing_fields(row)) > 0
    THEN <<"Missing required fields: ">> \o Join(", ", missing_fields(row))
    ELSE IF ~Truthy(GetOr(row, "permalink", <<>>)) /\ ~Truthy(GetOr(row, "ad_code", <<>>))
    THEN <<"Either permalink or ad_code must be provided">>
    ELSE None

\* Mutant of ResetLocals: the ids of the previous row are kept.
ResetLocalsSkipped ==
    [video_id |-> video_id, creative_id |-> creative_id,
     published_ad_id |-> published_ad_id]

\* The values video_id, creative_id and published_ad_id take before the try.
ResetLocals ==
    [video_id |-> None, creative_id |-> None, published_ad_id |-> None]

\* Mutant of EligibilityError: the ad_code path skips the check of the
\* eligibility errors as well as the check of the permission flag.
EligibilityErrorSkipsBothOnAdCode(ad_code, eligibility) ==
    IF ~DictTruthy(eligibility)
    THEN <<"Failed to fetch media eligibility">>
    ELSE IF Truthy(Get(eligibility, "error"))
    THEN <<"API Error: ">> \o Get(eligibility, "error")
    ELSE IF Truthy(ad_code)
    THEN None
    ELSE IF ~Truthy(Get(eligibility, "has_permission_for_partnership_ad"))
    THEN <<"Media does not have permission for partnership ads">>
    ELSE IF Truthy(Get(eligibility, "eligibility_errors"))
            /\ Len(GetOr(eligibility, "eligibility_errors", <<>>)) > 0
    THEN <<"Eligibility errors: ">>
             \o Join(", ", GetOr(eligibility, "eligibility_errors", <<>>))
    ELSE None

\* Mutant of EligibilityError: the permission flag is checked on the ad_code
\* path too.
EligibilityErrorAlwaysChecksPermission(ad_code, eligibility) ==
    IF ~DictTruthy(eligibility)
    THEN <<"Failed to fetch media eligibility">>
    ELSE IF Truthy(Get(eligibility, "error"))
    THEN <<"API Error: ">> \o Get(eligibility, "error")
    ELSE IF ~Truthy(Get(eligibility, "has_permission_for_partnership_ad"))
    THEN <<"Media does not have permission for partnership ads">>
    ELSE IF Truthy(Get(eligibility, "eligibility_errors"))
            /\ Len(GetOr(eligibility, "eligibility_errors", <<>>)) > 0
    THEN <<"Eligibility errors: ">>
             \o Join(", ", GetOr(eligibility, "eligibility_errors", <<>>))
    ELSE None

\* Mutant of EligibilityError: the eligibility_errors of the result are not
\* looked at.
EligibilityErrorIgnoresErrors(ad_code, eligibility) ==
    IF ~DictTruthy(eligibility)
    THEN <<"Failed to fetch media eligibility">>
    ELSE IF Truthy(Get(eligibility, "error"))
    THEN <<"API Error: ">> \o Get(eligibility, "error")
    ELSE IF ~Truthy(ad_code)
            /\ ~Truthy(Get(eligibility, "has_permission_for_partnership_ad"))
    THEN <<"Media does not have permission for partnership ads">>
    ELSE None

\* eligibility_error after the checks of the eligibility result.
EligibilityError(ad_code, eligibility) ==
    IF ~DictTruthy(eligibility)
    THEN <<"Failed to fetch media eligibility">>
    ELSE IF Truthy(Get(eligibility, "error"))
    THEN <<"API Error: ">> \o Get(eligibility, "error")
    ELSE IF ~Truthy(ad_code)
            /\ ~Truthy(Get(eligibility, "has_permission_for_partnership_ad"))
    THEN <<"Media does not have permission for partnership ads">>
    ELSE IF Truthy(Get(eligibility, "eligibility_errors"))
            /\ Len(GetOr(eligibility, "eligibility_errors", <<>>)) > 0
    THEN <<"Eligibility errors: ">>
             \o Join(", ", GetOr(eligibility, "eligibility_errors", <<>>))
    ELSE None

\* Mutant of UnexpectedError: the message of the exception without the prefix.
UnexpectedErrorBare(exc) == exc

\* "Unexpected error: " + str(e)
UnexpectedError(exc) == <<"Unexpected error: ">> \o exc

\* Mutant of AppendRecord: a failed row continues without being appended.
AppendRecordSkipsFailed(record) ==
    /\ output_rows' = IF record["status"] = Failed THEN output_rows
                      ELSE Append(output_rows, record)
    /\ idx' = idx + 1
    /\ pc' = "row"

\* output_rows.append(output_row); continue
AppendRecord(record) ==
    /\ output_rows' = Append(output_rows, record)
    /\ idx' = idx + 1
    /\ pc' = "row"

\* The entry of the call history.
Call(fn, response, result) ==
    [row |-> idx, fn |-> fn, response |-> response, result |-> result]

\* Mutant of ExceptionRecord: the handler writes empty ids.
ExceptionRecordDropsIds(row, exc, video, creative, ad) ==
    WithResult(row, Failed, UnexpectedError(exc), <<>>, <<>>, <<>>)

\* The record of the handler `except Exception as e` of the row.
ExceptionRecord(row, exc, video, creative, ad) ==
    WithResult(row, Failed, UnexpectedError(exc),
               OrElse(video, <<>>), OrElse(creative, <<>>), OrElse(ad, <<>>))

\* Mutant of FailedRecord: the error message is not stored.
FailedRecordWithoutError(row, error) ==
    WithResult(row, Failed, <<>>, <<>>, <<>>, <<>>)

\* A row rejected with all ids empty.
FailedRecord(row, error) == WithResult(row, Failed, error, <<>>, <<>>, <<>>)

\* From the return of the eligibility fetch to the upload call.
AfterEligibility(row, ad_code, result) ==
    IF result.raised
    THEN /\ AppendRecord(ExceptionRecord(row, result.exc, video_id',
                                         creative_id', published_ad_id'))
         /\ UNCHANGED source_instagram_media_id
    ELSE LET eligibility == result.value
             eligibility_error == EligibilityError(ad_code, eligibility)
         IN IF Truthy(eligibility_error)
            THEN /\ AppendRecord(FailedRecord(row, eligibility_error))
                 /\ UNCHANGED source_instagram_media_id
            ELSE /\ source_instagram_media_id' = Get(eligibility, "id")
                 /\ IF ~Truthy(Get(eligibility, "id"))
                    THEN AppendRecord(FailedRecord(row,
                             <<"Media ID not found in eligibility response">>))
                    ELSE /\ pc' = "upload"
                         /\ UNCHANGED <<idx, output_rows>>

\* The loop body from the top to the upload call: validation, the
\* eligibility fetch and its checks.
BeginRow ==
    /\ pc = "row"
    /\ idx <= Len(rows)
    /\ LET row == rows[idx]
           permalink == GetOr(row, "permalink", <<>>)
           ad_code == GetOr(row, "ad_code", <<>>)
       IN /\ output_row' = row
          /\ IF Truthy(ValidationError(row))
             THEN /\ AppendRecord(FailedRecord(row, ValidationError(row)))
                  /\ UNCHANGED <<source_instagram_media_id, video_id,
                                 creative_id, published_ad_id, calls>>
             ELSE /\ video_id' = ResetLocals.video_id
                  /\ creative_id' = ResetLocals.creative_id
                  /\ published_ad_id' = ResetLocals.published_ad_id
                  /\ IF Truthy(ad_code)
                     THEN \E response \in EligibilityResponses(idx) :
                            LET result == fetch_branded_content_advertisable_medias(
                                              ad_code, <<>>, response)
                            IN /\ calls' = Append(calls,
                                               Call("eligibility", response, result))
                               /\ AfterEligibility(row, ad_code, result)
                     ELSE IF Truthy(permalink)
                     THEN LET shortcode == extract_instagram_shortcode(permalink)
                          IN IF shortcode.raised
                             THEN /\ AppendRecord(FailedRecord(row, shortcode.exc))
                                  /\ UNCHANGED <<source_instagram_media_id, calls>>
                             ELSE \E response \in EligibilityResponses(idx) :
                                    LET result ==
                                          fetch_branded_content_advertisable_medias(
                                              None, <<shortcode.value>>, response)
                                    IN /\ calls' = Append(calls,
                                               Call("eligibility", response, result))
                                       /\ AfterEligibility(row, ad_code, result)
                     ELSE /\ calls' = calls
                          /\ AfterEligibility(row, ad_code,
                                 [params |-> EmptyDict, sent |-> FALSE,
                                  raised |-> FALSE, exc |-> None,
                                  value |-> NoneDict])
    /\ UNCHANGED <<rows, output_csv, exit_code>>
    /\ UNCHANGED <<fetch_vars, extract_vars, api_vars, platform_vars>>

\* The upload call and the check of its result.
UploadStep ==
    /\ pc = "upload"
    /\ \E response \in UploadResponses(idx) :
         LET ad_code == GetOr(rows[idx], "ad_code", <<>>)
             result == upload_instagram_video(
                           source_instagram_media_id,
                           IF Truthy(ad_code) THEN ad_code ELSE None, response)
         IN /\ calls' = Append(calls, Call("upload", response, result))
            /\ IF result.raised
               THEN /\ AppendRecord(ExceptionRecord(output_row, result.exc, video_id,
                                                    creative_id, published_ad_id))
                    /\ UNCHANGED video_id
               ELSE /\ video_id' = result.id
                    /\ IF ~Truthy(result.id)
                       THEN AppendRecord(FailedRecord(output_row,
                                OrElse(result.error, <<"Video upload failed">>)))
                       ELSE /\ pc' = "creative"
                            /\ UNCHANGED <<idx, output_rows>>
    /\ UNCHANGED <<rows, output_row, source_instagram_media_id, creative_id,
                   published_ad_id, output_csv, exit_code>>
    /\ UNCHANGED <<fetch_vars, extract_vars, api_vars, platform_vars>>

\* The creative call and the check of its result.
CreativeStep ==
    /\ pc = "creative"
    /\ \E response \in CreativeResponses(idx) :
         LET ad_code == GetOr(rows[idx], "ad_code", <<>>)
             app_link == GetOr(rows[idx], "app_link", <<>>)
             product_set_id == GetOr(rows[idx], "product_set_id", <<>>)
             result == create_ad_creative(
                           source_instagram_media_id,
                           IF Truthy(ad_code) THEN ad_code ELSE None,
                           Get(rows[idx], "cta_type"), Get(rows[idx], "link"),
                           IF Truthy(app_link) THEN app_link ELSE None,
                           IF Truthy(product_set_id) THEN product_set_id ELSE None,
                           response)
         IN /\ calls' = Append(calls, Call("creative", response, result))
            /\ IF result.raised
               THEN /\ AppendRecord(ExceptionRecord(output_row, result.exc, video_id,
                                                    creative_id, published_ad_id))
                    /\ UNCHANGED creative_id
               ELSE /\ creative_id' = result.id
                    /\ IF ~Truthy(result.id)
                       THEN AppendRecord(WithResult(output_row, Failed,
                                OrElse(result.error, <<"Creative creation failed">>),
                                OrElse(video_id, <<>>), <<>>, <<>>))
                       ELSE /\ pc' = "ad"
                            /\ UNCHANGED <<idx, output_rows>>
    /\ UNCHANGED <<rows, output_row, source_instagram_media_id, video_id,
                   published_ad_id, output_csv, exit_code>>
    /\ UNCHANGED <<fetch_vars, extract_vars, api_vars, platform_vars>>

\* The ad call, the check of its result and the success record.
AdStep ==
    /\ pc = "ad"
    /\ \E response \in AdResponses(idx) :
         LET result == create_ad(Get(rows[idx], "ad_name"),
                                 Get(rows[idx], "ad_set_id"), creative_id, response)
         IN /\ calls' = Append(calls, Call("ad", response, result))
            /\ IF result.raised
               THEN /\ AppendRecord(ExceptionRecord(output_row, result.exc, video_id,
                                                    creative_id, published_ad_id))
                    /\ UNCHANGED published_ad_id
               ELSE /\ published_ad_id' = result.id
                    /\ IF ~Truthy(result.id)
                       THEN AppendRecord(WithResult(output_row, Failed,
                                OrElse(result.error, <<"Ad creation failed">>),
                                OrElse(video_id, <<>>), OrElse(creative_id, <<>>),
                                <<>>))
                       ELSE AppendRecord(WithResult(output_row, Success, <<>>,
                                OrElse(video_id, <<>>), OrElse(creative_id, <<>>),
                                OrElse(result.id, <<>>)))
    /\ UNCHANGED <<rows, output_row, source_instagram_media_id, video_id,
                   creative_id, output_csv, exit_code>>
    /\ UNCHANGED <<fetch_vars, extract_vars, api_vars, platform_vars>>

\* `if not rows: return`: no output file.
NoRows ==
    /\ pc = "row"
    /\ Len(rows) = 0
    /\ pc' = "done"
    /\ UNCHANGED <<rows, idx, output_row, source_instagram_media_id, video_id,
                   creative_id, published_ad_id, output_rows, output_csv,
                   exit_code, calls>>
    /\ UNCHANGED <<fetch_vars, extract_vars, api_vars, platform_vars>>

\* csv.DictWriter's line of a record: its value, or "", for each field name.
DictToList(fieldnames, record) ==
    [k \in fieldnames |-> GetOr(record, k, <<>>)]

\* The records csv.DictWriter refuses: they hold a key that is no field name.
WrongFields(fieldnames) ==
    {i \in 1..Len(output_rows) : ~(DOMAIN output_rows[i] \subseteq fieldnames)}

\* After the loop: the header is taken from the first record and the records
\* are written in order; a record with a key outside the header raises
\* ValueError, which the outer handler turns into sys.exit(1).
WriteOutput ==
    /\ pc = "row"
    /\ Len(rows) > 0
    /\ idx > Len(rows)
    /\ LET fieldnames == DOMAIN output_rows[1]
           wrong == WrongFields(fieldnames)
           written == IF wrong = {} THEN Len(output_rows)
                      ELSE (CHOOSE i \in wrong : \A j \in wrong : i <= j) - 1
       IN /\ output_csv' =
                 [fieldnames |-> fieldnames,
                  records |-> [i \in 1..written |->
                                  DictToList(fieldnames, output_rows[i])]]
          /\ pc' = IF wrong = {} THEN "done" ELSE "exit"
          /\ exit_code' = IF wrong = {} THEN 0 ELSE 1
    /\ UNCHANGED <<rows, idx, output_row, source_instagram_media_id, video_id,
                   creative_id, published_ad_id, output_rows, calls>>
    /\ UNCHANGED <<fetch_vars, extract_vars, api_vars, platform_vars>>

Next ==
    \/ NoRows
    \/ BeginRow
    \/ UploadStep
    \/ CreativeStep
    \/ AdStep
    \/ WriteOutput

Spec == Init /\ [][Next]_vars

(***************************************************************************)
(* What the call history says of a row                                     *)
(***************************************************************************)
Stages == <<"eligibility", "upload", "creative", "ad">>

\* The calls made while row i was processed, in order.
CallsOf(i) == SelectSeq(calls, LAMBDA c : c.row = i)

\* The names of the calls of row i, in order.
StagesCalled(i) == [k \in 1..Len(CallsOf(i)) |-> CallsOf(i)[k].fn]

\* Stage fn of row i returned an id: it was called, did not raise and its
\* result carries a non-empty id.
ReturnedId(i, fn) ==
    \E k \in 1..Len(calls) :
        /\ calls[k].row = i
        /\ calls[k].fn = fn
        /\ ~calls[k].result.raised
        /\ Truthy(calls[k].result.id)

\* The id stage fn of row i returned, "" when it returned none.
IdOf(i, fn) ==
    IF ReturnedId(i, fn)
    THEN (CHOOSE c \in {calls[k] : k \in 1..Len(calls)} :
              c.row = i /\ c.fn = fn).result.id
    ELSE <<>>

\* The rows whose record has been appended.
Recorded == 1..Len(output_rows)

\* C1: in every output record, video_id is the id the upload stage of that
\* row returned and is empty when it returned none, and likewise creative_id
\* for the creative stage and published_ad_id for the ad stage; so a
\* non-empty published_ad_id implies a non-empty creative_id, which implies a
\* non-empty video_id.
C1_IdsReflectStages ==
    \A i \in Recorded :
        LET r == output_rows[i]
        IN /\ r["video_id"] = IdOf(i, "upload")
           /\ r["creative_id"] = IdOf(i, "creative")
           /\ r["published_ad_id"] = IdOf(i, "ad")
           /\ (r["video_id"] # <<>>) = ReturnedId(i, "upload")
           /\ (r["creative_id"] # <<>>) = ReturnedId(i, "creative")
           /\ (r["published_ad_id"] # <<>>) = ReturnedId(i, "ad")
           /\ (r["published_ad_id"] # <<>> => r["creative_id"] # <<>>)
           /\ (r["creative_id"] # <<>> => r["video_id"] # <<>>)

\* A row whose creative stage failed after the upload returned an id, and a
\* row whose ad stage raised after the creative stage returned an id.
C1_Witness ==
    \E i, j \in Recorded :
        /\ output_rows[i]["status"] = Failed
        /\ output_rows[i]["video_id"] # <<>>
        /\ output_rows[i]["creative_id"] = <<>>
        /\ \E k \in 1..Len(calls) :
               calls[k].row = j /\ calls[k].fn = "ad" /\ calls[k].result.raised
        /\ output_rows[j]["creative_id"] # <<>>
        /\ output_rows[j]["published_ad_id"] = <<>>

\* The eligibility call c passed: it returned a non-empty result that
\* carries no error, no eligibility errors and a media id.
EligibilityPassed(c) ==
    /\ c.fn = "eligibility"
    /\ ~c.result.raised
    /\ DictTruthy(c.result.value)
    /\ ~Truthy(Get(c.result.value, "error"))
    /\ ~Truthy(Get(c.result.value, "eligibility_errors"))
    /\ Truthy(Get(c.result.value, "id"))

\* Call c of the upload, creative or ad stage returned an id.
StagePassed(c) == ~c.result.raised /\ Truthy(c.result.id)

\* Once the loop is over, every row has its record.
LoopEndsComplete ==
    (pc \in {"done", "exit"} /\ Len(rows) > 0) => Len(output_rows) = Len(rows)

\* C2: the accumulator holds one record per processed row, record i being
\* row i with its input values; after the loop it holds exactly n records,
\* and the file written holds them in the same order.  A step appends at most
\* one record and never changes an earlier one, the record is appended in the
\* step that ends the row, and every remote call is made for the first row
\* that has no record yet.
C2_OneRecordPerRow ==
    /\ [](/\ idx = Len(output_rows) + 1
          /\ Len(output_rows) <= Len(rows)
          /\ \A i \in Recorded :
                 \A k \in DOMAIN rows[i] \ ResultFields :
                     /\ k \in DOMAIN output_rows[i]
                     /\ output_rows[i][k] = rows[i][k]
          /\ LoopEndsComplete
          /\ (pc = "done" /\ Len(rows) > 0) =>
                 /\ Len(output_csv.records) = Len(rows)
                 /\ \A i \in 1..Len(rows) :
                        \A k \in output_csv.fieldnames \cap DOMAIN output_rows[i] :
                            output_csv.records[i][k] = output_rows[i][k])
    /\ [][/\ Len(output_rows') \in {Len(output_rows), Len(output_rows) + 1}
          /\ SubSeq(output_rows', 1, Len(output_rows)) = output_rows
          /\ (Len(output_rows') = Len(output_rows) + 1) = (idx' = idx + 1)
          /\ idx' \in {idx, idx + 1}
          /\ calls' # calls =>
                 /\ Len(calls') = Len(calls) + 1
                 /\ SubSeq(calls', 1, Len(calls)) = calls
                 /\ calls'[Len(calls')].row = Len(output_rows) + 1]_vars

\* A batch of two different rows, the first failed and the second
\* successful, written to the file.
C2_Witness ==
    /\ pc = "done"
    /\ Len(rows) >= 2
    /\ rows[1] # rows[2]
    /\ output_rows[1]["status"] = Failed
    /\ output_rows[2]["status"] = Success
    /\ Len(output_csv.records) = Len(rows)

\* C3: the calls of a row are a prefix of <<eligibility, upload, creative,
\* ad>>, each an HTTP request issued once; the upload is called only after
\* the eligibility call passed with a media id, the creative call only after
\* the upload returned an id, the ad call only after the creative call
\* returned an id; so no call follows the first failing stage of a row.
\* Calls are made in row order.
C3_CallsArePrefix ==
    /\ \A i \in 1..Len(rows) :
           LET cs == CallsOf(i)
           IN /\ Len(cs) <= Len(Stages)
              /\ \A k \in 1..Len(cs) : cs[k].fn = Stages[k] /\ cs[k].result.sent
              /\ Len(cs) >= 2 => EligibilityPassed(cs[1])
              /\ \A k \in 2..Len(cs) : k < Len(cs) => StagePassed(cs[k])
    /\ \A k, l \in 1..Len(calls) : k < l => calls[k].row <= calls[l].row

\* One row went through the four calls and another stopped at a failed
\* upload.
C3_Witness ==
    \E i, j \in Recorded :
        /\ StagesCalled(i) = Stages
        /\ StagesCalled(j) = <<"eligibility", "upload">>
        /\ ~StagePassed(CallsOf(j)[2])

\* C4: every record has status "success" or "failed"; it is "success" exactly
\* when the row's eligibility, upload, creative and ad calls all succeeded,
\* and then error is empty and the three ids are non-empty; otherwise
\* error is non-empty, and when the failing stage returned an error message
\* or raised, error carries that message.
C4_StatusReflectsStages ==
    \A i \in Recorded :
        LET r == output_rows[i]
            cs == CallsOf(i)
            allSucceeded ==
                /\ Len(cs) = Len(Stages)
                /\ EligibilityPassed(cs[1])
                /\ \A k \in 2..Len(cs) : StagePassed(cs[k])
        IN /\ r["status"] \in {Success, Failed}
           /\ (r["status"] = Success) = allSucceeded
           /\ r["status"] = Success =>
                  /\ r["error"] = <<>>
                  /\ r["video_id"] # <<>>
                  /\ r["creative_id"] # <<>>
                  /\ r["published_ad_id"] # <<>>
           /\ r["status"] = Failed =>
                  /\ r["error"] # <<>>
                  /\ r["error"] # None
                  /\ (Len(cs) >= 2 /\ ~cs[Len(cs)].result.raised
                          /\ Truthy(cs[Len(cs)].result.error)) =>
                         r["error"] = cs[Len(cs)].result.error
                  /\ (Len(cs) >= 1 /\ cs[Len(cs)].result.raised) =>
                         SubSeq(r["error"], 2, Len(r["error"]))
                             = cs[Len(cs)].result.exc

\* A successful record and a failed one whose ad stage returned an error.
C4_Witness ==
    \E i, j \in Recorded :
        /\ output_rows[i]["status"] = Success
        /\ output_rows[j]["status"] = Failed
        /\ StagesCalled(j) = Stages
        /\ Truthy(CallsOf(j)[4].result.error)

\* The row is rejected locally: a required field is empty, or permalink and
\* ad_code are both empty, or ad_code is empty and the permalink contains
\* "/stories/".
LocallyRejected(row) ==
    \/ \E k \in {"cta_type", "link", "ad_name", "ad_set_id"} : ~Truthy(Get(row, k))
    \/ ~Truthy(Get(row, "permalink")) /\ ~Truthy(Get(row, "ad_code"))
    \/ ~Truthy(Get(row, "ad_code")) /\ ContainsStories(Get(row, "permalink"))

\* C5: a locally rejected row never has a remote call; its record is failed
\* with the three ids empty; and the loop goes on: it ends only with a record
\* for every row.
C5_LocalRejection ==
    /\ \A i \in 1..Len(rows) : LocallyRejected(rows[i]) => CallsOf(i) = <<>>
    /\ \A i \in Recorded :
           LocallyRejected(rows[i]) =>
               /\ output_rows[i]["status"] = Failed
               /\ output_rows[i]["video_id"] = <<>>
               /\ output_rows[i]["creative_id"] = <<>>
               /\ output_rows[i]["published_ad_id"] = <<>>
    /\ LoopEndsComplete
    /\ pc = "row" => idx = Len(output_rows) + 1

\* A locally rejected first row (a stories URL) followed by a row that was
\* processed with remote calls.
C5_Witness ==
    /\ Len(output_rows) >= 2
    /\ LocallyRejected(rows[1])
    /\ ContainsStories(Get(rows[1], "permalink"))
    /\ output_rows[1]["status"] = Failed
    /\ CallsOf(2) # <<>>

\* The calls that raised an exception.
RaisedCalls == {k \in 1..Len(calls) : calls[k].result.raised}

\* C6: when a stage call of row i raises, the record of row i is appended in
\* the same step: it is failed, its error is "Unexpected error: " followed by
\* the text of the exception, and its ids are those of the stages that
\* returned an id before; no further call is made for row i, and the loop
\* still ends only with a record for every row.
C6_ExceptionIsRowLocal ==
    /\ \A k \in RaisedCalls :
           LET i == calls[k].row
           IN /\ i \in Recorded
              /\ output_rows[i]["status"] = Failed
              /\ StartsWith(output_rows[i]["error"], <<"Unexpected error: ">>)
              /\ output_rows[i]["error"]
                     = <<"Unexpected error: ">> \o calls[k].result.exc
              /\ output_rows[i]["video_id"] = IdOf(i, "upload")
              /\ output_rows[i]["creative_id"] = IdOf(i, "creative")
              /\ output_rows[i]["published_ad_id"] = <<>>
              /\ calls[k].fn = "ad" =>
                     /\ output_rows[i]["video_id"] # <<>>
                     /\ output_rows[i]["creative_id"] # <<>>
              /\ \A l \in 1..Len(calls) : l > k => calls[l].row > i
    /\ LoopEndsComplete
    /\ pc = "exit" => WrongFields(DOMAIN output_rows[1]) # {}

\* The ad call of the first row raised after its upload and creative stages
\* returned ids, and the second row was then processed to success.
C6_Witness ==
    /\ Len(output_rows) >= 2
    /\ \E k \in RaisedCalls : calls[k].row = 1 /\ calls[k].fn = "ad"
    /\ output_rows[1]["video_id"] # <<>>
    /\ output_rows[1]["creative_id"] # <<>>
    /\ output_rows[2]["status"] = Success

\* The four required fields of the row are non-empty.
RequiredPresent(row) ==
    \A k \in {"cta_type", "link", "ad_name", "ad_set_id"} : Truthy(Get(row, k))

NoMediaMessage == <<"Either permalink or ad_code must be provided">>

\* C7 as claimed: a row with its required fields passes validation only when
\* exactly one of permalink and ad_code is non-empty; with both, as with
\* neither, it is failed before any remote call.
C7_ExactlyOneRequired ==
    \A i \in Recorded :
        (/\ RequiredPresent(rows[i])
         /\ Truthy(Get(rows[i], "permalink")) = Truthy(Get(rows[i], "ad_code")))
        => /\ output_rows[i]["status"] = Failed
           /\ CallsOf(i) = <<>>

\* C7 as amended: validation requires at least one of permalink and ad_code.
\* A row with its required fields and neither is failed with the "Either
\* permalink or ad_code" message before any remote call; a row with both
\* passes validation and takes the ad_code path: its eligibility is fetched by
\* ad code and the permalink is not used.
C7_AtLeastOneRequired ==
    \A i \in Recorded :
        RequiredPresent(rows[i]) =>
            /\ (~Truthy(Get(rows[i], "permalink")) /\ ~Truthy(Get(rows[i], "ad_code")))
                   => /\ output_rows[i]["status"] = Failed
                      /\ output_rows[i]["error"] = NoMediaMessage
                      /\ CallsOf(i) = <<>>
            /\ (Truthy(Get(rows[i], "permalink")) /\ Truthy(Get(rows[i], "ad_code")))
                   => /\ CallsOf(i) # <<>>
                      /\ CallsOf(i)[1].fn = "eligibility"
                      /\ CallsOf(i)[1].result.params
                             = [ad_code |-> Get(rows[i], "ad_code")]
                      /\ output_rows[i]["error"] # NoMediaMessage
            /\ Truthy(Get(rows[i], "ad_code")) => CallsOf(i) # <<>>

\* A row with both a permalink and an ad code that ended in success.
C7_Witness ==
    \E i \in Recorded :
        /\ Truthy(Get(rows[i], "permalink"))
        /\ Truthy(Get(rows[i], "ad_code"))
        /\ output_rows[i]["status"] = Success
        /\ StagesCalled(i) = Stages

PermissionMessage == <<"Media does not have permission for partnership ads">>

\* The eligibility call c returned a result without error whose permission
\* flag is false or absent.
WithoutPermission(c) ==
    /\ ~c.result.raised
    /\ DictTruthy(c.result.value)
    /\ ~Truthy(Get(c.result.value, "error"))
    /\ ~Truthy(Get(c.result.value, "has_permission_for_partnership_ad"))

\* C8: with an ad code, no record carries the permission error, and an
\* eligibility result without the permission flag that has a media id and no
\* eligibility errors is followed by the upload call; with a permalink only,
\* an eligibility result without the permission flag fails the row with the
\* permission error and no upload call is made.
C8_PermissionByPath ==
    \A i \in Recorded :
        LET cs == CallsOf(i)
        IN /\ Truthy(Get(rows[i], "ad_code")) =>
                  /\ output_rows[i]["error"] # PermissionMessage
                  /\ (/\ Len(cs) >= 1
                      /\ WithoutPermission(cs[1])
                      /\ EligibilityPassed(cs[1]))
                         => /\ Len(cs) >= 2
                            /\ cs[2].fn = "upload"
           /\ (/\ ~Truthy(Get(rows[i], "ad_code"))
               /\ Len(cs) >= 1
               /\ WithoutPermission(cs[1]))
                  => /\ output_rows[i]["status"] = Failed
                     /\ output_rows[i]["error"] = PermissionMessage
                     /\ Len(cs) = 1

\* The same kind of eligibility result (flag false, media id, no eligibility
\* errors) let an ad code row reach the upload and failed a permalink row.
C8_Witness ==
    \E i, j \in Recorded :
        /\ Truthy(Get(rows[i], "ad_code"))
        /\ Len(CallsOf(i)) >= 2
        /\ WithoutPermission(CallsOf(i)[1])
        /\ ~Truthy(Get(rows[j], "ad_code"))
        /\ Len(CallsOf(j)) = 1
        /\ WithoutPermission(CallsOf(j)[1])
        /\ EligibilityPassed(CallsOf(j)[1])
        /\ output_rows[j]["error"] = PermissionMessage

\* The tokens of a text.
Tokens(text) == {text[k] : k \in 1..Len(text)}

\* ad_code if ad_code else None
OrNone(v) == IF Truthy(v) THEN v ELSE None

\* The id the call of stage fn in cs returned, "" when none did.
IdIn(cs, fn) ==
    IF \E k \in 1..Len(cs) : cs[k].fn = fn /\ StagePassed(cs[k])
    THEN cs[CHOOSE k \in 1..Len(cs) : cs[k].fn = fn].result.id
    ELSE <<>>

\* The record of a row as a function of the row and of its own calls cs
\* alone: the local rejection when there is no call, else what the last call
\* of the row decides.
RowRecord(row, cs) ==
    LET last == cs[Len(cs)]
    IN IF Len(cs) = 0
       THEN WithResult(row, Failed,
                IF Truthy(ValidationError(row)) THEN ValidationError(row)
                ELSE extract_instagram_shortcode(Get(row, "permalink")).exc,
                <<>>, <<>>, <<>>)
       ELSE IF last.result.raised
       THEN WithResult(row, Failed, <<"Unexpected error: ">> \o last.result.exc,
                IdIn(cs, "upload"), IdIn(cs, "creative"), <<>>)
       ELSE IF last.fn = "eligibility"
       THEN WithResult(row, Failed,
                IF Truthy(EligibilityError(Get(row, "ad_code"), last.result.value))
                THEN EligibilityError(Get(row, "ad_code"), last.result.value)
                ELSE <<"Media ID not found in eligibility response">>,
                <<>>, <<>>, <<>>)
       ELSE IF last.fn = "ad" /\ StagePassed(last)
       THEN WithResult(row, Success, <<>>, IdIn(cs, "upload"),
                IdIn(cs, "creative"), last.result.id)
       ELSE WithResult(row, Failed,
                OrElse(last.result.error,
                       CASE last.fn = "upload" -> <<"Video upload failed">>
                         [] last.fn = "creative" -> <<"Creative creation failed">>
                         [] OTHER -> <<"Ad creation failed">>),
                IdIn(cs, "upload"), IdIn(cs, "creative"), <<>>)

\* The result of call k of cs as a function of the row, of the results of
\* the earlier calls of the same row and of the response it received.
OwnResult(row, cs, k) ==
    LET media == Get(cs[1].result.value, "id")
    IN CASE cs[k].fn = "eligibility" ->
              IF Truthy(Get(row, "ad_code"))
              THEN fetch_branded_content_advertisable_medias(
                       Get(row, "ad_code"), <<>>, cs[k].response)
              ELSE fetch_branded_content_advertisable_medias(
                       None,
                       <<extract_instagram_shortcode(Get(row, "permalink")).value>>,
                       cs[k].response)
         [] cs[k].fn = "upload" ->
              upload_instagram_video(media, OrNone(Get(row, "ad_code")),
                                     cs[k].response)
         [] cs[k].fn = "creative" ->
              create_ad_creative(media, OrNone(Get(row, "ad_code")),
                                 Get(row, "cta_type"), Get(row, "link"),
                                 OrNone(Get(row, "app_link")),
                                 OrNone(Get(row, "product_set_id")), cs[k].response)
         [] OTHER ->
              create_ad(Get(row, "ad_name"), Get(row, "ad_set_id"),
                        IdIn(cs, "creative"), cs[k].response)

\* C9: the record of row i is a function of row i and of the calls of row i
\* alone, each call of row i is made with values of row i and of its own
\* earlier calls, and no id and no text obtained for another row appears in
\* the record of row i.
C9_RowsDoNotInterfere ==
    \A i \in Recorded :
        LET cs == CallsOf(i)
        IN /\ output_rows[i] = RowRecord(rows[i], cs)
           /\ \A k \in 1..Len(cs) : cs[k].result = OwnResult(rows[i], cs, k)
           /\ \A j \in 1..Len(rows) :
                  j # i =>
                      /\ output_rows[i]["video_id"] # VideoId(j)
                      /\ output_rows[i]["creative_id"] # CreativeId(j)
                      /\ output_rows[i]["published_ad_id"] # AdId(j)
                      /\ RowTag(j) \notin Tokens(output_rows[i]["error"])

\* After a successful first row, the first call of the second row raised and
\* the record of the second row has no id.
C9_Witness ==
    /\ Len(output_rows) >= 2
    /\ output_rows[1]["status"] = Success
    /\ StagesCalled(2) = <<"eligibility">>
    /\ CallsOf(2)[1].result.raised
    /\ output_rows[2]["video_id"] = <<>>
    /\ output_rows[2]["published_ad_id"] = <<>>

\* C10 as claimed: every record holds the input columns of its row with their
\* input values and, beside them, exactly the five result fields, so every
\* record has the columns of the first record, from which the header of the
\* file is taken.
C10_SameColumns ==
    \A i \in Recorded :
        /\ DOMAIN output_rows[i] = DOMAIN rows[i] \cup ResultFields
        /\ DOMAIN rows[i] \cap ResultFields = {}
        /\ \A k \in DOMAIN rows[i] : output_rows[i][k] = rows[i][k]
        /\ DOMAIN output_rows[i] = DOMAIN output_rows[1]

(***************************************************************************)
(* fetch_all_advertisable_medias.  The remote API serves a chain of pages: *)
(* the first at the initial URL, page j + 1 at the URL page j gives as     *)
(* paging.next.  The Optional[int] limit is a set: {} for None, {N} for N. *)
(***************************************************************************)
\* The largest number of pages of a chain.
MaxPages == 3

\* The largest number of medias of a page.
MaxItems == 2

\* The largest limit.
MaxLimit == 2

InitialUrl ==
    <<"https:", "/", "/", "graph.facebook.com", "/", "v22.0", "/", "ig_account",
      "/", "branded_content_advertisable_medias">>

CreatorUsername == <<"creator">>

\* params of the first request, creator_username being given.
InitialParams ==
    [fields |-> <<"eligibility_errors,owner_id,permalink,id,has_permission_for_partnership_ad">>,
     limit |-> <<"25">>,
     creator_username |-> CreatorUsername]

\* The URL the remote API gives for page j.
PageUrl(j) == InitialUrl \o <<"?after=", ToString(j)>>

\* Media i of page j; flag is its has_permission_for_partnership_ad, None
\* when the media carries no such key.  A media without permission carries
\* eligibility errors, a media with permission its permalink.
Media(j, i, flag) ==
    LET media_id == <<"media_", ToString(j), "_", ToString(i)>>
    IN IF flag = None THEN [id |-> media_id]
       ELSE IF flag = False
       THEN [id |-> media_id, has_permission_for_partnership_ad |-> flag,
             eligibility_errors |-> <<"NO_PERMISSION", "EXPIRED">>]
       ELSE [id |-> media_id, has_permission_for_partnership_ad |-> flag,
             permalink |-> <<"https:", "/", "/", "www.", "instagram.com", "/",
                             "reel", "/", "abc", "/">>]

\* The permission flags of the medias of a page, in order; a media without
\* the key comes alone on its page.
FlagLists ==
    UNION {[1..n -> {True, False}] : n \in 0..MaxItems} \cup {<<None>>}

\* What a page can be: the request raises ("down"), a non-200 response
\* ("bad"), a 200 response whose body is no JSON ("invalid"), a 200 response
\* without the key data, or with the medias of a flag list.
PageShapes ==
    {[kind |-> k, has_data |-> FALSE, flags |-> <<>>] :
        k \in {"down", "bad", "invalid", "ok"}}
        \cup {[kind |-> "ok", has_data |-> TRUE, flags |-> fl] : fl \in FlagLists}

\* The paging of the last page of a chain: no key paging, or a paging object
\* without next.
LastPagings == {EmptyDict, [paging |-> [cursors |-> <<"before">>]]}

\* The response of page j of a chain of k pages.
PageResponse(j, k, shape, last_paging) ==
    LET data_part ==
            IF shape.has_data
            THEN [data |-> [i \in 1..Len(shape.flags) |-> Media(j, i, shape.flags[i])]]
            ELSE EmptyDict
        paging_part ==
            IF j < k THEN [paging |-> [next |-> PageUrl(j + 1)]] ELSE last_paging
    IN CASE shape.kind = "down" -> TransportError(j)
         [] shape.kind = "bad" -> BadRequest(j)
         [] shape.kind = "invalid" -> Ok(JsonInvalid)
         [] OTHER -> Ok(data_part @@ paging_part)

\* requests.get(url, ...): the page the remote API serves at url.
Serve(u) ==
    IF u = InitialUrl THEN chain[1]
    ELSE chain[CHOOSE j \in 1..Len(chain) : PageUrl(j) = u]

\* Mutant of WithPermission: the medias are not filtered.
WithPermissionKeepsAll(medias) == medias

\* [m for m in medias if m.get("has_permission_for_partnership_ad", False)]
WithPermission(medias) ==
    SelectSeq(medias,
              LAMBDA m : Truthy(GetOr(m, "has_permission_for_partnership_ad", False)))

\* Mutant of LimitReached: a limit of 0 is a limit like any other.
LimitReachedZeroCounts(lim, n) == \E N \in lim : n >= N

\* Mutant of LimitReached: the limit counts as reached only once it is
\* exceeded.
LimitReachedWhenExceeded(lim, n) == \E N \in lim : N # 0 /\ n > N

\* `limit and len(all_medias) >= limit`
LimitReached(lim, n) == \E N \in lim : N # 0 /\ n >= N

\* Mutant of Truncate: the medias past the limit are kept.
TruncateSkipped(medias, lim) == medias

\* all_medias[:limit]
Truncate(medias, lim) ==
    LET N == CHOOSE N \in lim : TRUE
    IN SubSeq(medias, 1, IF N < Len(medias) THEN N ELSE Len(medias))

FetchInit ==
    /\ CsvIdle
    /\ ExtractIdle
    /\ ApiIdle
    /\ PlatformIdle
    /\ \E k \in 1..MaxPages :
         \E shapes \in [1..k -> PageShapes] :
           \E last_paging \in LastPagings :
             chain = [j \in 1..k |-> PageResponse(j, k, shapes[j], last_paging)]
    /\ limit \in {{}} \cup {{N} : N \in 0..MaxLimit}
    /\ only_with_permission \in BOOLEAN
    /\ include_engagement_metrics \in BOOLEAN
    /\ url = InitialUrl
    /\ page_params = InitialParams
    /\ all_medias = <<>>
    /\ page_requests = <<>>
    /\ fetch_pc = "page"
    /\ medias_csv = NoFile
    /\ fetch_exit = 0

\* Mutant of FetchAbort: the loop is left and what was accumulated is saved.
FetchAbortSavesPartial ==
    /\ fetch_pc' = "save"
    /\ fetch_exit' = 1
    /\ UNCHANGED <<url, page_params, all_medias>>

\* sys.exit(1) in the loop, or from a handler of the outer try.
FetchAbort ==
    /\ fetch_pc' = "exit"
    /\ fetch_exit' = 1
    /\ UNCHANGED <<url, page_params, all_medias>>

\* Mutant of NextUrl: the next request starts again from the initial URL.
NextUrlRestarts(response_data) == InitialUrl

\* url = response_data["paging"]["next"]
NextUrl(response_data) == response_data["paging"]["next"]

\* One turn of `while True`: the page request, the filter, the limit, and
\* the next-page link.
FetchPage ==
    /\ fetch_pc = "page"
    /\ page_requests' = Append(page_requests, [url |-> url, params |-> page_params])
    /\ LET response == Serve(url)
       IN IF response.raises \/ response.status_code # HttpOK
             \/ ResponseJson(response).raised
          THEN FetchAbort
          ELSE LET response_data == response.json
                   has_data == "data" \in DOMAIN response_data
                   medias == IF ~has_data THEN <<>>
                             ELSE IF only_with_permission
                             THEN WithPermission(response_data["data"])
                             ELSE response_data["data"]
                   extended == all_medias \o medias
                   reached == has_data /\ LimitReached(limit, Len(extended))
               IN /\ all_medias' = IF reached THEN Truncate(extended, limit)
                                   ELSE extended
                  /\ fetch_exit' = fetch_exit
                  /\ IF reached
                     THEN /\ fetch_pc' = "save"
                          /\ UNCHANGED <<url, page_params>>
                     ELSE IF "paging" \in DOMAIN response_data
                             /\ "next" \in DOMAIN response_data["paging"]
                     THEN /\ url' = NextUrl(response_data)
                          /\ page_params' = EmptyDict
                          /\ fetch_pc' = "page"
                     ELSE /\ fetch_pc' = "save"
                          /\ UNCHANGED <<url, page_params>>
    /\ UNCHANGED <<chain, limit, only_with_permission, include_engagement_metrics,
                   medias_csv>>
    /\ UNCHANGED <<vars, extract_vars, api_vars, platform_vars>>

\* The value of the last metric called name that has values, None when
\* there is none (the loop over data["data"]).
RECURSIVE MetricValue(_, _)
MetricValue(metrics, name) ==
    IF Len(metrics) = 0 THEN None
    ELSE LET metric == metrics[Len(metrics)]
         IN IF Get(metric, "name") = name /\ Len(GetOr(metric, "values", <<>>)) > 0
            THEN Get(GetOr(metric, "values", <<>>)[1], "value")
            ELSE MetricValue(SubSeq(metrics, 1, Len(metrics) - 1), name)

\* [likes, comments, reach, impressions, saves] from the responses of the
\* media request and of the insights request; a request that raises, or a
\* body that is no JSON, leaves its metrics None.
fetch_media_insights(media_response, insights_response) ==
    LET Answered(r) == ~r.raises /\ r.status_code = HttpOK /\ ~ResponseJson(r).raised
        basic == media_response.json
        insights == insights_response.json
        HasData == Answered(insights_response) /\ "data" \in DOMAIN insights
        Metric(name) == IF HasData THEN MetricValue(insights["data"], name) ELSE None
    IN [likes |-> IF Answered(media_response) THEN Get(basic, "like_count") ELSE None,
        comments |-> IF Answered(media_response) THEN Get(basic, "comments_count")
                     ELSE None,
        reach |-> Metric(<<"reach">>),
        impressions |-> Metric(<<"impressions">>),
        saves |-> Metric(<<"saved">>)]

\* What the media endpoint and the insights endpoint answer.
MediaResponses ==
    {BadRequest(0), Ok([like_count |-> <<"7">>, comments_count |-> <<"2">>])}

InsightsResponses ==
    {TransportError(0),
     Ok([data |-> <<[name |-> <<"reach">>, values |-> <<[value |-> <<"9">>]>>],
                    [name |-> <<"impressions">>, values |-> <<>>],
                    [name |-> <<"saved">>, values |-> <<[value |-> <<"1">>]>>]>>])}

\* json.dumps of a list of strings.
JsonDumps(list) ==
    <<"[">> \o Join(", ", [i \in 1..Len(list) |-> "\"" \o list[i] \o "\""]) \o <<"]">>

MediaFields ==
    {"media_id", "permalink", "owner_id", "has_permission_for_partnership_ad",
     "eligibility_errors"}

MetricFields == {"likes", "comments", "reach", "impressions", "saves"}

\* The row of a media, with its metrics when they are asked for and the
\* media has an id.
MediaRow(media, with_metrics, metrics) ==
    LET row ==
            [media_id |-> GetOr(media, "id", <<>>),
             permalink |-> GetOr(media, "permalink", <<>>),
             owner_id |-> GetOr(media, "owner_id", <<>>),
             has_permission_for_partnership_ad |->
                 GetOr(media, "has_permission_for_partnership_ad", False),
             eligibility_errors |->
                 JsonDumps(GetOr(media, "eligibility_errors", <<>>))]
    IN IF with_metrics /\ Truthy(Get(media, "id")) THEN row @@ metrics ELSE row

\* csv.DictWriter's line of a row: "" for a missing key and for None.
CsvLine(fieldnames, record) ==
    [k \in fieldnames |->
        IF GetOr(record, k, <<>>) = None THEN <<>> ELSE GetOr(record, k, <<>>)]

\* Mutant of NothingToSave: the file is written whatever was retained.
NothingToSaveNever == FALSE

\* `if not all_medias`
NothingToSave == Len(all_medias) = 0

\* After the loop: nothing is written when no media is retained; otherwise
\* one row per retained media, in order.  The media endpoint and the insights
\* endpoint answer every media of a run alike.
SaveMedias ==
    /\ fetch_pc = "save"
    /\ fetch_pc' = "done"
    /\ IF NothingToSave
       THEN medias_csv' = medias_csv
       ELSE \E media_response \in
                  IF include_engagement_metrics THEN MediaResponses
                  ELSE {BadRequest(0)} :
              \E insights_response \in
                    IF include_engagement_metrics THEN InsightsResponses
                    ELSE {TransportError(0)} :
                LET metrics == fetch_media_insights(media_response, insights_response)
                    csv_rows == [i \in 1..Len(all_medias) |->
                                    MediaRow(all_medias[i], include_engagement_metrics,
                                             metrics)]
                    fieldnames == IF include_engagement_metrics
                                  THEN MediaFields \cup MetricFields
                                  ELSE MediaFields
                IN medias_csv' =
                       [fieldnames |-> fieldnames,
                        records |-> [i \in 1..Len(csv_rows) |->
                                        CsvLine(fieldnames, csv_rows[i])]]
    /\ UNCHANGED <<chain, limit, only_with_permission, include_engagement_metrics,
                   url, page_params, all_medias, page_requests, fetch_exit>>
    /\ UNCHANGED <<vars, extract_vars, api_vars, platform_vars>>

FetchNext ==
    \/ FetchPage
    \/ SaveMedias

FetchSpec == FetchInit /\ [][FetchNext]_fetch_vars

\* The calls without engagement metrics: the page loop is the same with
\* them, and the enrichment comes after it.
FetchLiveInit == FetchInit /\ ~include_engagement_metrics

\* The function is sequential code: a step that can be taken is taken.
FetchLiveSpec == FetchLiveInit /\ [][FetchNext]_fetch_vars /\ WF_fetch_vars(FetchNext)

(***************************************************************************)
(* What the chain and the request history say of a fetch                   *)
(***************************************************************************)
\* Page j answers 200 with a JSON body.
PageOk(j) ==
    /\ ~chain[j].raises
    /\ chain[j].status_code = HttpOK
    /\ chain[j].json # JsonInvalid

\* Page j answers with a status other than 200.
PageNot200(j) == ~chain[j].raises /\ chain[j].status_code # HttpOK

\* Page j carries paging.next.
HasNext(j) ==
    /\ PageOk(j)
    /\ "paging" \in DOMAIN chain[j].json
    /\ "next" \in DOMAIN chain[j].json["paging"]

\* The media has has_permission_for_partnership_ad true.
Permitted(m) ==
    /\ "has_permission_for_partnership_ad" \in DOMAIN m
    /\ m["has_permission_for_partnership_ad"] = True

\* The data of page j, restricted to the permitted medias when the filter is
\* set; empty when the page has no data.
PageItems(j) ==
    IF PageOk(j) /\ "data" \in DOMAIN chain[j].json
    THEN IF only_with_permission
         THEN SelectSeq(chain[j].json["data"], Permitted)
         ELSE chain[j].json["data"]
    ELSE <<>>

\* The filter discards a media of page j.
Discards(j) ==
    /\ PageOk(j)
    /\ "data" \in DOMAIN chain[j].json
    /\ \E i \in 1..Len(chain[j].json["data"]) : ~Permitted(chain[j].json["data"][i])

\* The filtered items of pages 1..k, in fetch order.
RECURSIVE ItemsUpTo(_)
ItemsUpTo(k) == IF k = 0 THEN <<>> ELSE ItemsUpTo(k - 1) \o PageItems(k)

\* The pages requested so far.
Fetched == Len(page_requests)

\* The loop was left without an abort.
LoopLeft == fetch_pc \in {"save", "done"}

\* The media ids of the rows of the file, in order.
WrittenIds == [i \in 1..Len(medias_csv.records) |-> medias_csv.records[i]["media_id"]]

\* The ids of the retained medias, in order.
RetainedIds == [i \in 1..Len(all_medias) |-> all_medias[i]["id"]]

\* C11: with a limit N >= 1, whatever the chain and the filter, at most N
\* medias are retained and written (the file holds the retained medias, in
\* order), what is retained is a prefix of the filtered items of the pages
\* fetched, and it is exactly their first N as soon as they total N or more.
C11_LimitBoundsRetained ==
    \A N \in limit :
        N >= 1 =>
            /\ Len(all_medias) <= N
            /\ Len(all_medias) <= Len(ItemsUpTo(Fetched))
            /\ all_medias = SubSeq(ItemsUpTo(Fetched), 1, Len(all_medias))
            /\ (Len(ItemsUpTo(Fetched)) >= N => Len(all_medias) = N)
            /\ (medias_csv # NoFile =>
                    /\ Len(medias_csv.records) <= N
                    /\ WrittenIds = RetainedIds)
            /\ (fetch_pc = "done" /\ Len(all_medias) > 0 => medias_csv # NoFile)

\* A fetch with the filter set that discarded a media, fetched more filtered
\* medias than its limit, and wrote exactly the limit.
C11_Witness ==
    /\ limit = {2}
    /\ only_with_permission
    /\ fetch_pc = "done"
    /\ Len(ItemsUpTo(Fetched)) > 2
    /\ \E j \in 1..Fetched : Discards(j)
    /\ Len(medias_csv.records) = 2

\* The loop stops at page k: the filtered items of pages 1..k reach the limit
\* N, or page k carries no paging.next.
StopsAt(k, N) == Len(ItemsUpTo(k)) >= N \/ ~HasNext(k)

\* C12: with a limit N >= 1, a page is requested only while no page fetched
\* before reached the limit or lacked paging.next, and once the loop is left
\* the last page fetched is the first that does: the number of requests is
\* the smallest k at which the loop stops.
C12_RequestsUntilLimit ==
    \A N \in limit :
        N >= 1 =>
            /\ \A k \in 1..(Fetched - 1) : PageOk(k) /\ ~StopsAt(k, N)
            /\ (LoopLeft => Fetched >= 1 /\ PageOk(Fetched) /\ StopsAt(Fetched, N))
            /\ (fetch_pc = "page" /\ Fetched >= 1 =>
                    PageOk(Fetched) /\ ~StopsAt(Fetched, N))

\* The limit was reached at the second page of three, which carries
\* paging.next: the third page was not requested.
C12_Witness ==
    /\ limit = {2}
    /\ Len(chain) = 3
    /\ fetch_pc = "done"
    /\ Fetched = 2
    /\ HasNext(2)
    /\ Len(ItemsUpTo(1)) < 2
    /\ Len(ItemsUpTo(2)) >= 2

\* Every page of the chain answers 200 with a JSON body.
ChainOk == \A j \in 1..Len(chain) : PageOk(j)

\* C13: with no limit and a chain of k pages that all answer, once the loop
\* is left exactly k requests were issued, the first at the initial URL and
\* request j + 1 at the paging.next of page j, and the retained medias are
\* the data of the k pages in order, restricted to the permitted medias when
\* the filter is set; the file holds them in that order.
C13_NoLimitFetchesAll ==
    (limit = {} /\ ChainOk /\ LoopLeft) =>
        /\ Fetched = Len(chain)
        /\ page_requests[1].url = InitialUrl
        /\ \A j \in 1..(Fetched - 1) :
               page_requests[j + 1].url = chain[j].json["paging"]["next"]
        /\ all_medias = ItemsUpTo(Len(chain))
        /\ (only_with_permission =>
                \A i \in 1..Len(all_medias) : Permitted(all_medias[i]))
        /\ (fetch_pc = "done" /\ Len(all_medias) > 0 => WrittenIds = RetainedIds)

\* Three pages fetched without limit with the filter set: a media was
\* discarded, medias of the first and of the third page were retained.
C13_Witness ==
    /\ limit = {}
    /\ ChainOk
    /\ Len(chain) = 3
    /\ only_with_permission
    /\ fetch_pc = "done"
    /\ Fetched = 3
    /\ Len(PageItems(1)) > 0
    /\ Len(PageItems(3)) > 0
    /\ Discards(2)
    /\ Len(medias_csv.records) = Len(ItemsUpTo(3))

\* C14: when a page requested answers with a status other than 200, the
\* first or a later one, the process has exited with status 1, that page is
\* the last one requested and no output file is written.
C14_Non200Aborts ==
    \A j \in 1..Fetched :
        PageNot200(j) =>
            /\ fetch_pc = "exit"
            /\ fetch_exit = 1
            /\ Fetched = j
            /\ medias_csv = NoFile

\* The second page of three answered 400 after the medias of the first were
\* accumulated.
C14_Witness ==
    /\ Len(chain) = 3
    /\ Fetched = 2
    /\ PageNot200(2)
    /\ Len(all_medias) > 0
    /\ fetch_pc = "exit"

\* C15: a fetch whose loop is left with no media retained returns normally
\* (exit status 0) and its step after the loop writes no file.
C15_NothingRetainedNoFile ==
    /\ [](LoopLeft /\ Len(all_medias) = 0 => medias_csv = NoFile /\ fetch_exit = 0)
    /\ [][fetch_pc = "save" /\ Len(all_medias) = 0 =>
              fetch_pc' = "done" /\ medias_csv' = NoFile /\ fetch_exit' = 0]_fetch_vars

\* A fetch that returned with nothing retained: the filter removed every
\* media of two pages.
C15_Witness ==
    /\ fetch_pc = "done"
    /\ only_with_permission
    /\ Fetched = 2
    /\ Len(all_medias) = 0
    /\ \A j \in 1..2 : Discards(j)
    /\ medias_csv = NoFile

(***************************************************************************)
(* extract_instagram_shortcode called on its own: once on the input, then  *)
(* on the value the first call returned.  In the inputs a code is followed *)
(* by "/", by a token that starts outside [A-Za-z0-9_-], or by the end.    *)
(***************************************************************************)
\* The largest number of tokens of an input that is no URL.
MaxTokens == 4

Protocols == {<<>>, <<"http:", "/", "/">>, <<"https:", "/", "/">>}

WwwPrefixes == {<<>>, <<"www.">>}

Kinds == {"p", "reel", "tv"}

\* Non-empty strings over [A-Za-z0-9_-]: one token, or two.
Codes == {<<t>> : t \in CodeTokens} \cup {<<"abc", "X_1-z">>}

\* [http(s)://][www.]instagram.com/{p|reel|tv}/<code>/
UrlForm(protocol, www, kind, code) ==
    protocol \o www \o <<"instagram.com", "/", kind, "/">> \o code \o <<"/">>

UrlInputs ==
    {UrlForm(protocol, www, kind, code) :
        protocol \in Protocols, www \in WwwPrefixes, kind \in Kinds, code \in Codes}

\* URLs inside a longer text, without the last "/", or followed by a query,
\* by a stories path or by a second URL.
DecoratedInputs ==
    {lead \o SubSeq(u, 1, Len(u) - 1) \o tail :
        lead \in {<<>>, <<"/">>, <<"see ">>},
        u \in UrlInputs,
        tail \in {<<>>, <<"?igshid=1">>, <<"/", "stories", "/">>,
                  <<"/", "?igshid=1", "/">>,
                  <<" ", "instagram.com", "/", "reel", "/", "123456">>}}

\* Every string of at most MaxTokens of these tokens.
ShortInputs ==
    UNION {[1..n -> {"/", "stories", "abc", "instagram.com", "reel"}] :
              n \in 0..MaxTokens}

ExtractInputs == UrlInputs \cup DecoratedInputs \cup ShortInputs

NotCalled == [raised |-> FALSE, exc |-> None, value |-> None]

ExtractInit ==
    /\ CsvIdle
    /\ FetchIdle
    /\ ApiIdle
    /\ PlatformIdle
    /\ extract_input \in ExtractInputs
    /\ extract_pc = "call"
    /\ extract_result = NotCalled
    /\ extract_again = NotCalled

\* extract_instagram_shortcode(extract_input)
ExtractCall ==
    /\ extract_pc = "call"
    /\ extract_result' = extract_instagram_shortcode(extract_input)
    /\ extract_pc' = IF extract_result'.raised THEN "done" ELSE "again"
    /\ UNCHANGED <<extract_input, extract_again>>
    /\ UNCHANGED <<vars, fetch_vars, api_vars, platform_vars>>

\* extract_instagram_shortcode on the value the first call returned.
ExtractAgain ==
    /\ extract_pc = "again"
    /\ extract_again' = extract_instagram_shortcode(extract_result.value)
    /\ extract_pc' = "done"
    /\ UNCHANGED <<extract_input, extract_result>>
    /\ UNCHANGED <<vars, fetch_vars, api_vars, platform_vars>>

ExtractNext ==
    \/ ExtractCall
    \/ ExtractAgain

ExtractSpec == ExtractInit /\ [][ExtractNext]_extract_vars

(***************************************************************************)
(* What an input of extract_instagram_shortcode is                         *)
(***************************************************************************)
\* s contains the substring "/stories/".
StoriesIn(s) ==
    \E i \in 1..Len(s) :
        i + 2 <= Len(s) /\ SubSeq(s, i, i + 2) = <<"/", "stories", "/">>

\* s contains instagram.com/p/, instagram.com/reel/ or instagram.com/tv/
\* followed by a character of [A-Za-z0-9_-].
UrlPatternIn(s) ==
    \E i \in 1..Len(s) :
        /\ i + 4 <= Len(s)
        /\ \E kind \in Kinds : SubSeq(s, i, i + 3) = <<"instagram.com", "/", kind, "/">>
        /\ s[i + 4] \in CodeTokens

\* The call on the input has returned or raised.
Extracted == extract_pc \in {"again", "done"}

StoriesMessage == <<"Stories boosting is not supported by this script">>

\* C16 as stated: for every input [http(s)://][www.]instagram.com/{p|reel|tv}/
\* <code>/ with <code> a non-empty string over [A-Za-z0-9_-], the call
\* returns exactly <code>.
C16_UrlFormGivesCode ==
    \A protocol \in Protocols, www \in WwwPrefixes, kind \in Kinds, code \in Codes :
        (Extracted /\ extract_input = UrlForm(protocol, www, kind, code)) =>
            ~extract_result.raised /\ extract_result.value = code

\* C16 amended: for every input [http(s)://][www.]instagram.com/{p|reel|tv}/
\* <code>/ with <code> a non-empty string over [A-Za-z0-9_-] other than
\* "stories", the call returns exactly <code>, whatever the protocol, the
\* "www." and the path prefix; with <code> = "stories" the input contains
\* "/stories/" and the call fails with the stories error.
C16_UrlFormGivesCodeUnlessStories ==
    \A protocol \in Protocols, www \in WwwPrefixes, kind \in Kinds, code \in Codes :
        (Extracted /\ extract_input = UrlForm(protocol, www, kind, code)) =>
            IF code = <<"stories">>
            THEN extract_result.raised /\ extract_result.exc = StoriesMessage
            ELSE ~extract_result.raised /\ extract_result.value = code

\* The code of a /tv/ URL without protocol and without "www." was returned.
C16_Witness ==
    /\ Extracted
    /\ extract_input = UrlForm(<<>>, <<>>, "tv", <<"abc", "X_1-z">>)
    /\ extract_result.value = <<"abc", "X_1-z">>

\* C17: every call on an input that contains "/stories/" fails with the
\* stories error and returns no value, also when the input matches the URL
\* pattern.
C17_StoriesAlwaysFails ==
    (Extracted /\ StoriesIn(extract_input)) =>
        /\ extract_result.raised
        /\ extract_result.exc = StoriesMessage
        /\ extract_result.value = None
        /\ extract_pc = "done"
        /\ extract_again = NotCalled

\* The call failed on an input that matches the URL pattern and goes on with
\* a stories path.
C17_Witness ==
    /\ Extracted
    /\ UrlPatternIn(extract_input)
    /\ StoriesIn(extract_input)
    /\ extract_input[Len(extract_input) - 1] = "stories"
    /\ extract_result.raised

\* C18: for every input that does not contain "/stories/" and does not match
\* the URL pattern, the first call returns a value that again does neither,
\* and the call on that value returns it unchanged.
C18_Idempotent ==
    (extract_pc = "done" /\ ~StoriesIn(extract_input) /\ ~UrlPatternIn(extract_input)) =>
        /\ ~extract_result.raised
        /\ ~StoriesIn(extract_result.value)
        /\ ~UrlPatternIn(extract_result.value)
        /\ ~extract_again.raised
        /\ extract_again.value = extract_result.value

\* Both calls were made on an input that is no URL and that the first call
\* changed.
C18_Witness ==
    /\ extract_pc = "done"
    /\ ~StoriesIn(extract_input)
    /\ ~UrlPatternIn(extract_input)
    /\ Len(extract_input) = 4
    /\ extract_result.value # extract_input
    /\ Len(extract_result.value) > 0
    /\ extract_again.value = extract_result.value

\* s without its last character when that is "/".
WithoutTrailingSlash(s) ==
    IF Len(s) > 0 /\ s[Len(s)] = "/" THEN SubSeq(s, 1, Len(s) - 1) ELSE s

\* C19 as stated: for an input that does not contain "/stories/" and does
\* not match the URL pattern, the call returns the input with only a trailing
\* slash removed, every other character (a leading slash too) unchanged; the
\* empty input is returned unchanged.
C19_OnlyTrailingSlashRemoved ==
    (Extracted /\ ~StoriesIn(extract_input) /\ ~UrlPatternIn(extract_input)) =>
        /\ ~extract_result.raised
        /\ extract_result.value = WithoutTrailingSlash(extract_input)

(***************************************************************************)
(* make_api_request (src/cpas_demos/shared/cpas_api_client.py).  A         *)
(* response is [raises, exc_type, exc, status_code, text, json]: exc_type  *)
(* is the class of what the request raises, or of what response.json()     *)
(* raises on a body that is no JSON (a RequestException or a ValueError,   *)
(* after the version of requests).  A JSON body is a dict, or NoneDict for *)
(* null, JsonList for a list, JsonString for a string.                     *)
(***************************************************************************)
JsonList == [py_list |-> <<>>]

JsonString == [py_str |-> <<>>]

\* isinstance(v, dict) of a decoded JSON value.
IsDict(v) == v \notin {NoneDict, JsonList, JsonString, JsonInvalid}

\* The AttributeError of v.get on a value that is no dict.
NoAttributeGet(v) ==
    CASE v = NoneDict -> <<"'NoneType' object has no attribute 'get'">>
      [] v = JsonList -> <<"'list' object has no attribute 'get'">>
      [] OTHER -> <<"'str' object has no attribute 'get'">>

\* method.upper()
Upper(method) ==
    CASE method = "get" -> "GET"
      [] method = "Post" -> "POST"
      [] method = "delete" -> "DELETE"
      [] method = "patch" -> "PATCH"
      [] OTHER -> method

GraphApiVersion == <<"v22.0">>

\* Mutant of Caught: one handler for every exception.
CaughtAsUnexpected(exc_type, exc) ==
    [data |-> NoneDict, error |-> <<"Unexpected error: ">> \o exc]

\* The pair of an exception caught by the handlers of the try.
Caught(exc_type, exc) ==
    IF exc_type = "RequestException"
    THEN [data |-> NoneDict, error |-> <<"Request error: ">> \o exc]
    ELSE [data |-> NoneDict, error |-> <<"Unexpected error: ">> \o exc]

\* [requests, data, error]: the HTTP requests issued and the pair returned.
make_api_request(endpoint, method, params, data, response) ==
    LET request_url == <<"https:", "/", "/", "graph.facebook.com", "/">>
                           \o GraphApiVersion \o <<"/">> \o endpoint
        request == IF Upper(method) = "POST"
                   THEN [verb |-> Upper(method), url |-> request_url,
                         params |-> params, json |-> data]
                   ELSE [verb |-> Upper(method), url |-> request_url,
                         params |-> params]
    IN IF Upper(method) \notin {"GET", "POST", "DELETE"}
       THEN [requests |-> <<>>, data |-> NoneDict,
             error |-> <<"Unsupported HTTP method: ", method>>]
       ELSE [requests |-> <<request>>] @@
            (IF response.raises
             THEN Caught(response.exc_type, response.exc)
             ELSE IF response.json = JsonInvalid
             THEN Caught(response.exc_type, response.exc)
             ELSE LET response_data == response.json
                  IN IF response.status_code = HttpOK
                     THEN [data |-> response_data, error |-> None]
                     ELSE IF ~IsDict(response_data)
                     THEN Caught("AttributeError", NoAttributeGet(response_data))
                     ELSE LET error == GetOr(response_data, "error", EmptyDict)
                          IN IF ~IsDict(error)
                             THEN Caught("AttributeError", NoAttributeGet(error))
                             ELSE [data |-> NoneDict,
                                   error |-> <<"API Error ">>
                                       \o GetOr(error, "code", <<StatusText(response)>>)
                                       \o <<": ">>
                                       \o GetOr(error, "message", response.text)])

\* The bodies of a response: no JSON, null, a list, and dicts without error,
\* with an error that is an object (complete, partial, empty), null or a
\* string.
ApiBodies ==
    {JsonInvalid, NoneDict, JsonList, EmptyDict,
     [id |-> <<"new_123">>],
     [error |-> [code |-> <<"100">>, message |-> <<"Invalid parameter">>]],
     [error |-> [message |-> <<"Invalid parameter">>]],
     [error |-> [code |-> <<"100">>]],
     [error |-> EmptyDict],
     [error |-> NoneDict],
     [error |-> JsonString]}

ApiStatusCodes == {HttpOK, 400, 502}

ApiResponses ==
    {[raises |-> TRUE, exc_type |-> t, exc |-> <<"Connection error">>,
      status_code |-> 0, text |-> <<>>, json |-> JsonInvalid] :
        t \in {"RequestException", "Exception"}}
    \cup
    {[raises |-> FALSE, exc_type |-> IF body = JsonInvalid THEN t ELSE "",
      exc |-> IF body = JsonInvalid
              THEN <<"Expecting value: line 1 column 1 (char 0)">> ELSE None,
      status_code |-> code, text |-> <<"Error text">>, json |-> body] :
        t \in {"RequestException", "ValueError"}, code \in ApiStatusCodes,
        body \in ApiBodies}

ApiMethods == {"GET", "get", "POST", "Post", "DELETE", "delete", "PATCH", "patch", ""}

ApiInit ==
    /\ CsvIdle
    /\ FetchIdle
    /\ ExtractIdle
    /\ PlatformIdle
    /\ api_call \in
           {[endpoint |-> <<"123", "/", "test_endpoint">>, method |-> method,
             params |-> params, data |-> NoneDict] :
               method \in ApiMethods, params \in {NoneDict, [name |-> <<"test">>]}}
    /\ api_response \in ApiResponses
    /\ api_pc = "call"
    /\ api_requests = <<>>
    /\ api_result = [data |-> NoneDict, error |-> None]

\* One call of make_api_request.
ApiCall ==
    /\ api_pc = "call"
    /\ LET result == make_api_request(api_call.endpoint, api_call.method,
                                      api_call.params, api_call.data, api_response)
       IN /\ api_requests' = result.requests
          /\ api_result' = [data |-> result.data, error |-> result.error]
    /\ api_pc' = "done"
    /\ UNCHANGED <<api_call, api_response>>
    /\ UNCHANGED <<vars, fetch_vars, extract_vars, platform_vars>>

ApiNext == ApiCall

ApiSpec == ApiInit /\ [][ApiNext]_api_vars

(***************************************************************************)
(* What a call of make_api_request received                                *)
(***************************************************************************)
\* The request was issued and a response came back.
Answered == api_pc = "done" /\ Len(api_requests) = 1 /\ ~api_response.raises

\* The nested error object of the body, {} when the body has none.
ErrorObject ==
    IF IsDict(api_response.json) /\ "error" \in DOMAIN api_response.json
          /\ IsDict(api_response.json["error"])
    THEN api_response.json["error"]
    ELSE EmptyDict

\* C20 as stated: for every response with a status other than 200, whatever
\* its body, the call returns None and "API Error {code}: {message}", code
\* and message being those of the nested error object of the body when it
\* has them, the HTTP status and the raw response text otherwise.
C20_Non200GivesApiError ==
    (Answered /\ api_response.status_code # HttpOK) =>
        /\ api_result.data = NoneDict
        /\ api_result.error =
               <<"API Error ">>
                   \o (IF "code" \in DOMAIN ErrorObject THEN ErrorObject["code"]
                       ELSE <<ToString(api_response.status_code)>>)
                   \o <<": ">>
                   \o (IF "message" \in DOMAIN ErrorObject THEN ErrorObject["message"]
                       ELSE api_response.text)

\* The method strings that are GET, POST or DELETE whatever the case.
SupportedMethods == {"GET", "get", "POST", "Post", "DELETE", "delete"}

\* What the request, or the decoding of the body, raised.
Fault ==
    api_call.method \in SupportedMethods
        /\ (api_response.raises \/ api_response.json = JsonInvalid)

\* C21: every call returns a pair.  When the request or the decoding of the
\* body raises, data is None and the error is "Request error: " followed by
\* the text of a RequestException, "Unexpected error: " followed by the text
\* of any other exception; a method other than GET, POST or DELETE gives
\* None and "Unsupported HTTP method: " with the method, and no HTTP request
\* is issued.
C21_FaultsBecomeErrors ==
    api_pc = "done" =>
        /\ DOMAIN api_result = {"data", "error"}
        /\ IF api_call.method \notin SupportedMethods
           THEN /\ api_requests = <<>>
                /\ api_result.data = NoneDict
                /\ api_result.error = <<"Unsupported HTTP method: ", api_call.method>>
           ELSE Len(api_requests) = 1
        /\ (Fault /\ api_response.exc_type = "RequestException") =>
               /\ api_result.data = NoneDict
               /\ api_result.error = <<"Request error: ">> \o api_response.exc
        /\ (Fault /\ api_response.exc_type # "RequestException") =>
               /\ api_result.data = NoneDict
               /\ api_result.error = <<"Unexpected error: ">> \o api_response.exc

\* A DELETE whose request raised a transport-level exception.
C21_Witness ==
    /\ api_pc = "done"
    /\ api_call.method = "delete"
    /\ api_response.raises
    /\ api_response.exc_type = "RequestException"
    /\ StartsWith(api_result.error, <<"Request error: ">>)

\* C22 as stated: a call issues at most one HTTP request and returns
\* (data, None) with data not None exactly when the response has status 200,
\* (None, error) with a non-empty error otherwise.
C22_DataXorError ==
    api_pc = "done" =>
        /\ Len(api_requests) <= 1
        /\ IF Len(api_requests) = 1 /\ ~api_response.raises
                 /\ api_response.status_code = HttpOK
           THEN api_result.data # NoneDict /\ api_result.error = None
           ELSE /\ api_result.data = NoneDict
                /\ api_result.error # None
                /\ Len(api_result.error) > 0

\* C25: every request that creates an ad carries the status PAUSED, the
\* ad_name and the ad_set_id of the row being processed and the creative id
\* the creative stage of that row returned, and nothing else; the remote
\* calls of the pipeline are those of the four stages, of which only the ad
\* stage addresses an ad.
C25_AdsCreatedPaused ==
    \A k \in 1..Len(calls) :
        LET c == calls[k]
        IN /\ \E s \in 1..Len(Stages) : c.fn = Stages[s]
           /\ c.fn = "ad" =>
                /\ DOMAIN c.result.params = {"status", "name", "adset_id", "creative"}
                /\ c.result.params.status = <<"PAUSED">>
                /\ c.result.params.name = Get(rows[c.row], "ad_name")
                /\ c.result.params.adset_id = Get(rows[c.row], "ad_set_id")
                /\ ReturnedId(c.row, "creative")
                /\ c.result.params.creative = [creative_id |-> IdOf(c.row, "creative")]

\* Two rows of different ads and ad sets each reached the ad stage.
C25_Witness ==
    /\ pc = "done"
    /\ Len(rows) = 2
    /\ Get(rows[1], "ad_name") # Get(rows[2], "ad_name")
    /\ Get(rows[1], "ad_set_id") # Get(rows[2], "ad_set_id")
    /\ \A i \in 1..2 : \E k \in 1..Len(calls) : calls[k].row = i /\ calls[k].fn = "ad"

\* The eligibility call c returned a result without error that lists
\* eligibility errors.
WithEligibilityErrors(c) ==
    /\ c.fn = "eligibility"
    /\ ~c.result.raised
    /\ DictTruthy(c.result.value)
    /\ ~Truthy(Get(c.result.value, "error"))
    /\ Truthy(Get(c.result.value, "eligibility_errors"))

\* "Eligibility errors: " and the codes of the result of call c.
CodesMessage(c) ==
    <<"Eligibility errors: ">>
        \o Join(", ", GetOr(c.result.value, "eligibility_errors", <<>>))

\* The eligibility call c returned nothing usable: an empty result, a result
\* carrying an error, or a result without a media id.
WithoutMedia(c) ==
    /\ c.fn = "eligibility"
    /\ ~c.result.raised
    /\ \/ ~DictTruthy(c.result.value)
       \/ Truthy(Get(c.result.value, "error"))
       \/ ~Truthy(Get(c.result.value, "id"))

\* Row i failed at its eligibility call: no other call was made for it.
FailedAtEligibility(i) ==
    /\ Len(CallsOf(i)) = 1
    /\ output_rows[i]["status"] = Failed
    /\ output_rows[i]["video_id"] = <<>>

\* C27 as claimed: on both paths an eligibility result with eligibility
\* errors fails the row before any upload call with an error listing the
\* codes; and an empty result, a result carrying an error and a result
\* without a media id fail the row before the upload.
C27_ErrorsListedOnBothPaths ==
    \A i \in Recorded :
        LET cs == CallsOf(i)
        IN Len(cs) >= 1 =>
             /\ WithEligibilityErrors(cs[1]) =>
                    /\ FailedAtEligibility(i)
                    /\ output_rows[i]["error"] = CodesMessage(cs[1])
             /\ WithoutMedia(cs[1]) => FailedAtEligibility(i)

\* C27 as amended: the row fails before any upload call on both paths; its
\* error lists the codes on the ad_code path, and on the permalink path when
\* the permission flag is set; on the permalink path without the flag it is
\* the permission error.
C27_ErrorsFailBothPaths ==
    \A i \in Recorded :
        LET cs == CallsOf(i)
        IN Len(cs) >= 1 =>
             /\ WithEligibilityErrors(cs[1]) =>
                    /\ FailedAtEligibility(i)
                    /\ output_rows[i]["error"] =
                           IF ~Truthy(Get(rows[i], "ad_code")) /\ WithoutPermission(cs[1])
                           THEN PermissionMessage
                           ELSE CodesMessage(cs[1])
             /\ WithoutMedia(cs[1]) => FailedAtEligibility(i)

\* An ad code row and a permalink row with the permission flag both failed
\* with the codes of their eligibility errors.
C27_Witness ==
    \E i, j \in Recorded :
        /\ Truthy(Get(rows[i], "ad_code"))
        /\ ~Truthy(Get(rows[j], "ad_code"))
        /\ \A r \in {i, j} :
               /\ Len(CallsOf(r)) = 1
               /\ WithEligibilityErrors(CallsOf(r)[1])
               /\ output_rows[r]["error"] = CodesMessage(CallsOf(r)[1])
        /\ ~WithoutPermission(CallsOf(j)[1])

\* The first page of the chain that does not lead to a next one: it fails,
\* or it carries no paging.next.
LastPage == CHOOSE j \in 1..Len(chain) : ~HasNext(j) /\ \A i \in 1..(j - 1) : HasNext(i)

\* C28: with limit 0 as with limit None the run is a function of the chain
\* and of the filter alone.  The requests are those of the pages up to the
\* first one that fails or carries no paging.next, none being skipped because
\* of the number of medias retained; the medias retained are all the
\* filtered items of the pages fetched; and the file holds them.
C28_ZeroIsNoLimit ==
    limit \in {{}, {0}} =>
        /\ Fetched <= LastPage
        /\ (fetch_pc # "page" => Fetched = LastPage)
        /\ \A j \in 1..Fetched :
               page_requests[j].url = IF j = 1 THEN InitialUrl ELSE PageUrl(j)
        /\ all_medias = ItemsUpTo(Fetched)
        /\ (fetch_pc = "exit" <=> (Fetched = LastPage /\ ~PageOk(LastPage)))
        /\ (fetch_pc = "done" =>
                IF Len(all_medias) = 0 THEN medias_csv = NoFile
                ELSE WrittenIds = RetainedIds)

\* With limit 0 the fetch went past a first page of which nothing was
\* retained, and past a second page with medias, to the end of the chain.
C28_Witness ==
    /\ limit = {0}
    /\ fetch_pc = "done"
    /\ Len(chain) = 3
    /\ Fetched = 3
    /\ Discards(1)
    /\ Len(PageItems(1)) = 0
    /\ Len(PageItems(2)) > 0
    /\ Len(medias_csv.records) = Len(ItemsUpTo(3))

\* C26: the fetch terminates on every chain, whatever the limit and the
\* filter.  At most as many requests are issued as the chain has pages;
\* every page requested before the last request carries paging.next; the
\* first request is at the initial URL with the initial parameters, and
\* each later request is at the paging.next of the page before it, without
\* parameters.
C26_FetchTerminates ==
    /\ [](/\ Fetched <= Len(chain)
          /\ \A j \in 1..(Fetched - 1) : HasNext(j)
          /\ (Fetched >= 1 =>
                  page_requests[1] = [url |-> InitialUrl, params |-> InitialParams])
          /\ \A j \in 1..(Fetched - 1) :
                 page_requests[j + 1] =
                     [url |-> chain[j].json["paging"]["next"], params |-> EmptyDict]
          /\ (fetch_pc = "page" => Fetched < Len(chain)))
    /\ <>[](fetch_pc \in {"done", "exit"})

\* A chain of three pages was fetched to its end, the last page carrying a
\* paging object without next.
C26_Witness ==
    /\ fetch_pc = "done"
    /\ Len(chain) = 3
    /\ Fetched = 3
    /\ PageOk(3)
    /\ "paging" \in DOMAIN chain[3].json

(***************************************************************************)
(* The CPAS API client: operations built on make_api_request               *)
(***************************************************************************)
\* A response with a status and a JSON body.
ApiAnswer(code, body) ==
    [raises |-> FALSE, exc_type |-> "", exc |-> None, status_code |-> code,
     text |-> <<"Error text">>, json |-> body]

\* The request fails: no connection, or the API refuses it.
FailedResponses ==
    {[raises |-> TRUE, exc_type |-> "RequestException", exc |-> <<"Connection error">>,
      status_code |-> 0, text |-> <<>>, json |-> JsonInvalid],
     ApiAnswer(400, [error |-> [code |-> <<"100">>, message |-> <<"Invalid parameter">>]])}

\* What a request that creates an object can receive: a failure, or 200 with
\* the id of the object, with an empty id, with {} or with null.
CreateResponses(id) ==
    FailedResponses
        \cup {ApiAnswer(HttpOK, body) : body \in {[id |-> id], [id |-> <<>>], EmptyDict, NoneDict}}

\* `if error: return None, error`, then the id of the response, or the
\* message that it is missing.
IdOrError(result, missing) ==
    IF Truthy(result.error) THEN [id |-> None, error |-> result.error]
    ELSE IF DictTruthy(result.data) /\ "id" \in DOMAIN result.data
    THEN [id |-> result.data["id"], error |-> None]
    ELSE [id |-> None, error |-> missing]

\* ad_account_id with its act_ prefix.
WithActPrefix(ad_account_id) ==
    IF StartsWith(ad_account_id, <<"act_">>) THEN ad_account_id
    ELSE <<"act_">> \o ad_account_id

DEFAULT_DAILY_BUDGET == 100000

\* [requests, id, error] of create_campaign with the default
\* special_ad_categories and status.
create_campaign(ad_account_id, name, objective, response) ==
    LET endpoint == WithActPrefix(ad_account_id) \o <<"/", "campaigns">>
        params == [name |-> name, objective |-> objective, status |-> <<"PAUSED">>,
                   special_ad_categories |-> <<>>]
        result == make_api_request(endpoint, "POST", params, NoneDict, response)
    IN [requests |-> result.requests]
           @@ IdOrError(result, <<"Campaign ID not found in response">>)

\* [requests, id, error] of create_ad_set with the default billing event,
\* optimization goal and status.
create_ad_set(ad_account_id, campaign, name, catalog_segment_id, daily_budget, targeting, response) ==
    LET endpoint == WithActPrefix(ad_account_id) \o <<"/", "adsets">>
        params == [name |-> name, campaign_id |-> campaign,
                   daily_budget |-> daily_budget,
                   billing_event |-> <<"IMPRESSIONS">>,
                   optimization_goal |-> <<"OFFSITE_CONVERSIONS">>,
                   targeting |-> IF targeting = NoneDict
                                 THEN [geo_locations |-> [countries |-> <<"IN">>]]
                                 ELSE targeting,
                   promoted_object |-> [product_catalog_id |-> catalog_segment_id],
                   status |-> <<"PAUSED">>]
        result == make_api_request(endpoint, "POST", params, NoneDict, response)
    IN [requests |-> result.requests]
           @@ IdOrError(result, <<"Ad set ID not found in response">>)

(***************************************************************************)
(* create_cpas_campaign_with_ad_set                                        *)
(***************************************************************************)
CampaignId == <<"camp_123">>
AdSetId == <<"adset_456">>

CpasInit ==
    /\ CsvIdle
    /\ FetchIdle
    /\ ExtractIdle
    /\ ApiIdle
    /\ OnboardingIdle
    /\ BulkIdle
    /\ WizardIdle
    /\ cpas_args \in
           [ad_account_id : {<<"act_", "123">>, <<"123">>},
            catalog_segment_id : {<<"cat_789">>},
            campaign_name : {<<"Test Campaign">>, <<"Other Campaign">>},
            ad_set_name : {<<"Test Ad Set">>},
            daily_budget : {DEFAULT_DAILY_BUDGET, 50000},
            targeting : {NoneDict, [geo_locations |-> [countries |-> <<"US">>]]}]
    /\ cpas_pc = "campaign"
    /\ campaign_id = None
    /\ cpas_calls = <<>>
    /\ cpas_result = [data |-> NoneDict, error |-> None]

\* Mutant of StepFailed: an error is never looked at.
StepFailedNever(error) == FALSE

\* `if error:` after a creation step.
StepFailed(error) == Truthy(error)

\* The call of create_campaign and the return on its error.
CampaignStep ==
    /\ cpas_pc = "campaign"
    /\ \E response \in CreateResponses(CampaignId) :
         LET result == create_campaign(cpas_args.ad_account_id, cpas_args.campaign_name,
                                       <<"OUTCOME_SALES">>, response)
         IN /\ cpas_calls' = Append(cpas_calls,
                                    [fn |-> "create_campaign",
                                     requests |-> result.requests,
                                     id |-> result.id, error |-> result.error])
            /\ campaign_id' = result.id
            /\ IF StepFailed(result.error)
               THEN /\ cpas_result' =
                           [data |-> NoneDict,
                            error |-> <<"Failed to create campaign: ">> \o result.error]
                    /\ cpas_pc' = "done"
               ELSE /\ cpas_pc' = "ad_set"
                    /\ UNCHANGED cpas_result
    /\ UNCHANGED cpas_args
    /\ UNCHANGED <<vars, fetch_vars, extract_vars, api_vars>>
    /\ UNCHANGED <<onboarding_vars, bulk_vars, wizard_vars>>

\* The call of create_ad_set and the two returns after it.
AdSetStep ==
    /\ cpas_pc = "ad_set"
    /\ \E response \in CreateResponses(AdSetId) :
         LET result == create_ad_set(cpas_args.ad_account_id, campaign_id,
                                     cpas_args.ad_set_name, cpas_args.catalog_segment_id,
                                     cpas_args.daily_budget, cpas_args.targeting, response)
         IN /\ cpas_calls' = Append(cpas_calls,
                                    [fn |-> "create_ad_set",
                                     requests |-> result.requests,
                                     id |-> result.id, error |-> result.error])
            /\ cpas_result' =
                   IF StepFailed(result.error)
                   THEN [data |-> NoneDict,
                         error |-> <<"Campaign created (">> \o campaign_id
                                       \o <<") but failed to create ad set: ">>
                                       \o result.error]
                   ELSE [data |-> [campaign_id |-> campaign_id, ad_set_id |-> result.id],
                         error |-> None]
    /\ cpas_pc' = "done"
    /\ UNCHANGED <<cpas_args, campaign_id>>
    /\ UNCHANGED <<vars, fetch_vars, extract_vars, api_vars>>
    /\ UNCHANGED <<onboarding_vars, bulk_vars, wizard_vars>>

CpasNext ==
    \/ CampaignStep
    \/ AdSetStep

CpasSpec == CpasInit /\ [][CpasNext]_cpas_vars

\* s holds part as a run of consecutive tokens.
Contains(s, part) ==
    \E i \in 0..(Len(s) - Len(part)) : SubSeq(s, i + 1, i + Len(part)) = part

\* C23: the ad set is only created after create_campaign returned without
\* error, with the id it returned.  When the campaign fails the result is
\* None, the error carries the campaign's error and create_ad_set is not
\* called; when the ad set fails the result is None and the error holds the
\* id of the campaign and the ad set's error; and the result is
\* {campaign_id, ad_set_id} with error None only when both returned
\* without error.
C23_AdSetAfterCampaign ==
    /\ Len(cpas_calls) <= 2
    /\ \A k \in 1..Len(cpas_calls) :
           cpas_calls[k].fn = IF k = 1 THEN "create_campaign" ELSE "create_ad_set"
    /\ Len(cpas_calls) = 2 =>
           /\ cpas_calls[1].error = None
           /\ cpas_calls[2].requests[1].params.campaign_id = cpas_calls[1].id
    /\ cpas_pc = "done" =>
           LET campaign == cpas_calls[1]
           IN IF campaign.error # None
              THEN /\ Len(cpas_calls) = 1
                   /\ cpas_result.data = NoneDict
                   /\ Contains(cpas_result.error, campaign.error)
              ELSE /\ Len(cpas_calls) = 2
                   /\ IF cpas_calls[2].error # None
                      THEN /\ cpas_result.data = NoneDict
                           /\ Contains(cpas_result.error, campaign.id)
                           /\ Contains(cpas_result.error, cpas_calls[2].error)
                      ELSE /\ cpas_result.data =
                                  [campaign_id |-> campaign.id,
                                   ad_set_id |-> cpas_calls[2].id]
                           /\ cpas_result.error = None
    /\ (cpas_result.data # NoneDict \/ cpas_pc # "done") => cpas_result.error = None

\* The campaign was created and the ad set was refused.
C23_Witness ==
    /\ cpas_pc = "done"
    /\ Len(cpas_calls) = 2
    /\ cpas_calls[1].id = CampaignId
    /\ cpas_calls[2].error # None
    /\ Contains(cpas_result.error, CampaignId)

(***************************************************************************)
(* The agency platform: get_full_onboarding_status                         *)
(***************************************************************************)
\* The merchants of the configuration, with their placeholder ids.
INDIA_MERCHANTS ==
    [key \in {"blinkit", "swiggy", "zepto", "bigbasket", "amazon_fresh"} |->
        [name |-> <<"Merchant ", key>>,
         business_id |-> <<"PLACEHOLDER_", key, "_BM_ID">>]]

\* The merchant of a key with its key, None for a key that is not known.
get_merchant_by_key(key) ==
    IF key \in DOMAIN INDIA_MERCHANTS
    THEN [key |-> <<key>>] @@ INDIA_MERCHANTS[key]
    ELSE NoneDict

\* `if error: return None, error`, then the data of the response, or [].
\* none says that the list returned is None.
ListOrError(result) ==
    IF Truthy(result.error) THEN [list |-> <<>>, none |-> TRUE, error |-> result.error]
    ELSE IF DictTruthy(result.data) /\ "data" \in DOMAIN result.data
    THEN [list |-> result.data["data"], none |-> FALSE, error |-> None]
    ELSE [list |-> <<>>, none |-> FALSE, error |-> None]

\* get_collaboration_requests without a status filter.
get_collaboration_requests(business_id, response) ==
    ListOrError(make_api_request(
        business_id \o <<"/", "collaborative_ads_collaboration_requests">>,
        "GET", [limit |-> <<"50">>], NoneDict, response))

get_shared_catalog_segments(business_id, response) ==
    ListOrError(make_api_request(
        business_id \o <<"/", "client_product_catalogs">>,
        "GET", [limit |-> <<"50">>, fields |-> <<"id,name,product_count,vertical">>],
        NoneDict, response))

get_ad_accounts(business_id, response) ==
    ListOrError(make_api_request(
        business_id \o <<"/", "owned_ad_accounts">>,
        "GET", [limit |-> <<"50">>,
                fields |-> <<"id,name,account_status,currency,timezone_name">>],
        NoneDict, response))

\* The positions of the requests of a list that are addressed to bm_id.
AddressedTo(requests, bm_id) ==
    {k \in 1..Len(requests) :
        Get(GetOr(requests[k], "receiver_business", EmptyDict), "id") = bm_id}

\* The dict get_partnership_status returns.
get_partnership_status(key, response) ==
    LET merchant == get_merchant_by_key(key)
        sent == get_collaboration_requests(<<"brand_bm">>, response)
        merchant_bm_id_ == Get(merchant, "business_id")
        found == AddressedTo(sent.list, merchant_bm_id_)
    IN IF merchant = NoneDict
       THEN [status |-> <<"error">>, message |-> <<"Unknown merchant: ", key>>]
       ELSE IF Truthy(sent.error)
       THEN [status |-> <<"error">>, message |-> sent.error]
       ELSE IF found # {}
       THEN LET request == sent.list[CHOOSE k \in found : \A j \in found : k <= j]
            IN [status |-> GetOr(request, "request_status", <<"unknown">>),
                request_id |-> Get(request, "id"),
                merchant |-> merchant,
                created_time |-> Get(request, "created_time")]
       ELSE [status |-> <<"no_request">>, merchant |-> merchant,
             message |-> <<"No collaboration request found for this merchant">>]

\* The dict get_full_onboarding_status returns.
get_full_onboarding_status(key, responses) ==
    LET partnership_ == get_partnership_status(key, responses.requests)
        catalogs == get_shared_catalog_segments(<<"brand_bm">>, responses.catalogs)
        accounts == get_ad_accounts(<<"brand_bm">>, responses.accounts)
        requested == Get(partnership_, "status") # <<"no_request">>
    IN [connection_request |-> requested,
        request_approved |-> requested /\ Get(partnership_, "status") = <<"APPROVED">>,
        catalog_available |-> Len(catalogs.list) > 0,
        ad_account_ready |-> Len(accounts.list) > 0,
        campaign_created |-> FALSE,
        details |->
            (IF requested
             THEN [request_id |-> Get(partnership_, "request_id"),
                   request_status |-> Get(partnership_, "status")]
             ELSE EmptyDict)
            @@ (IF Len(catalogs.list) > 0
                THEN [catalog_count |-> Len(catalogs.list)] ELSE EmptyDict)
            @@ (IF Len(accounts.list) > 0
                THEN [ad_account_count |-> Len(accounts.list)] ELSE EmptyDict)]

\* A collaboration request sent to a merchant.
CollabRequest(id, receiver, request_status) ==
    [id |-> <<id>>, receiver_business |-> [id |-> INDIA_MERCHANTS[receiver].business_id],
     request_status |-> <<request_status>>, created_time |-> <<"2024-01-01">>]

\* The lists of requests a brand has sent: to blinkit, to swiggy, to both,
\* several to the same merchant, and requests without receiver or status.
SentRequestLists ==
    {<<>>,
     <<[id |-> <<"r0">>]>>,
     <<[id |-> <<"r0">>, receiver_business |-> [id |-> INDIA_MERCHANTS["blinkit"].business_id]]>>}
    \cup {<<CollabRequest("r1", "blinkit", st)>> :
            st \in {"PENDING", "APPROVED", "REJECTED", "IN_PROGRESS"}}
    \cup {<<CollabRequest("r1", "swiggy", "APPROVED"), CollabRequest("r2", "blinkit", st)>> :
            st \in {"PENDING", "APPROVED"}}
    \cup {<<CollabRequest("r1", "blinkit", "REJECTED"), CollabRequest("r2", "blinkit", "APPROVED")>>}

\* What a listing can receive: a failure, or 200 with a list, {} or null.
ListResponses(lists) ==
    FailedResponses
        \cup {ApiAnswer(HttpOK, [data |-> l]) : l \in lists}
        \cup {ApiAnswer(HttpOK, EmptyDict), ApiAnswer(HttpOK, NoneDict)}

OnboardingInit ==
    /\ CsvIdle
    /\ FetchIdle
    /\ ExtractIdle
    /\ ApiIdle
    /\ CpasIdle
    /\ BulkIdle
    /\ WizardIdle
    /\ merchant_key \in {"blinkit", "swiggy", "unknown", ""}
    /\ onboarding_responses \in
           [requests : ListResponses(SentRequestLists),
            catalogs : ListResponses({<<[id |-> <<"cat_1">>]>>}),
            accounts : ListResponses({<<[id |-> <<"act_1">>], [id |-> <<"act_2">>]>>})]
    /\ onboarding_pc = "call"
    /\ partnership = EmptyDict
    /\ onboarding_status = EmptyDict

\* One call of get_full_onboarding_status.
OnboardingCall ==
    /\ onboarding_pc = "call"
    /\ partnership' = get_partnership_status(merchant_key, onboarding_responses.requests)
    /\ onboarding_status' = get_full_onboarding_status(merchant_key, onboarding_responses)
    /\ onboarding_pc' = "done"
    /\ UNCHANGED <<merchant_key, onboarding_responses>>
    /\ UNCHANGED <<vars, fetch_vars, extract_vars, api_vars>>
    /\ UNCHANGED <<cpas_vars, bulk_vars, wizard_vars>>

OnboardingNext == OnboardingCall

OnboardingSpec == OnboardingInit /\ [][OnboardingNext]_onboarding_vars

\* The requests the listing of the brand's sent requests returned; none when
\* the listing failed.
SentRequests ==
    IF ~onboarding_responses.requests.raises
          /\ onboarding_responses.requests.status_code = HttpOK
          /\ DictTruthy(onboarding_responses.requests.json)
          /\ "data" \in DOMAIN onboarding_responses.requests.json
    THEN onboarding_responses.requests.json["data"]
    ELSE <<>>

\* The requests among them that are addressed to the selected merchant.
RequestsToMerchant ==
    IF merchant_key \in DOMAIN INDIA_MERCHANTS
    THEN {k \in 1..Len(SentRequests) :
            /\ "receiver_business" \in DOMAIN SentRequests[k]
            /\ SentRequests[k]["receiver_business"].id
                   = INDIA_MERCHANTS[merchant_key].business_id}
    ELSE {}

\* C24 as stated: connection_request is True exactly when a request
\* addressed to the selected merchant was found among the brand's sent
\* requests, so it is False when the merchant key is unknown or the listing
\* fails; request_approved is True only if the request found has the status
\* APPROVED; and request_approved implies connection_request.
C24_ConnectionRequestIffFound ==
    onboarding_pc = "done" =>
        /\ onboarding_status.connection_request = (RequestsToMerchant # {})
        /\ onboarding_status.request_approved =>
               /\ RequestsToMerchant # {}
               /\ partnership.request_id \in
                      {SentRequests[k].id : k \in RequestsToMerchant}
               /\ partnership.status = <<"APPROVED">>
        /\ onboarding_status.request_approved => onboarding_status.connection_request

(***************************************************************************)
(* The merchant platform: bulk_approve_requests and bulk_reject_requests   *)
(***************************************************************************)
\* The largest number of request ids of a bulk call.
MaxIds == 3

\* `if error: return False, error`, then `return True, None`.
TrueOrError(result) ==
    IF Truthy(result.error)
    THEN [requests |-> result.requests, success |-> FALSE, error |-> result.error]
    ELSE [requests |-> result.requests, success |-> TRUE, error |-> None]

\* [requests, success, error] of accept_collaboration_request.
accept_collaboration_request(request_id, response) ==
    TrueOrError(make_api_request(request_id, "POST", [request_status |-> <<"approve">>],
                                 NoneDict, response))

\* [requests, success, error] of reject_collaboration_request.
reject_collaboration_request(request_id, response) ==
    TrueOrError(make_api_request(request_id, "POST", [request_status |-> <<"reject">>],
                                 NoneDict, response))

\* What the request of a decision can receive.
DecisionResponses ==
    FailedResponses
        \cup {ApiAnswer(HttpOK, [success |-> True]), ApiAnswer(HttpOK, NoneDict)}

BulkInit ==
    /\ CsvIdle
    /\ FetchIdle
    /\ ExtractIdle
    /\ ApiIdle
    /\ CpasIdle
    /\ OnboardingIdle
    /\ WizardIdle
    /\ bulk_action \in {"approve", "reject"}
    /\ request_ids \in UNION {[1..n -> {<<"req_1">>, <<"req_2">>}] : n \in 0..MaxIds}
    /\ bulk_idx = 1
    /\ bulk_pc = "loop"
    /\ results = [total |-> Len(request_ids), successful |-> 0, failed |-> 0,
                  details |-> <<>>]
    /\ attempts = <<>>

\* The status of a request the bulk function has decided.
DecidedStatus(action) == IF action = "approve" THEN <<"approved">> ELSE <<"rejected">>

\* Mutant of Tally: a failed request is counted and not detailed.
TallyWithoutFailedDetail(tally, request_id, outcome, decided) ==
    IF outcome.success
    THEN [tally EXCEPT !.successful = @ + 1,
                       !.details = Append(@, [id |-> request_id, status |-> decided])]
    ELSE [tally EXCEPT !.failed = @ + 1]

\* results after the if/else of a turn of the loop.
Tally(tally, request_id, outcome, decided) ==
    IF outcome.success
    THEN [tally EXCEPT !.successful = @ + 1,
                       !.details = Append(@, [id |-> request_id, status |-> decided])]
    ELSE [tally EXCEPT !.failed = @ + 1,
                       !.details = Append(@, [id |-> request_id, status |-> <<"failed">>,
                                              error |-> outcome.error])]

\* One turn of `for request_id in request_ids`.
BulkAttempt ==
    /\ bulk_pc = "loop"
    /\ bulk_idx <= Len(request_ids)
    /\ \E response \in DecisionResponses :
         LET request_id == request_ids[bulk_idx]
             outcome == IF bulk_action = "approve"
                        THEN accept_collaboration_request(request_id, response)
                        ELSE reject_collaboration_request(request_id, response)
         IN /\ attempts' = Append(attempts, [id |-> request_id,
                                             requests |-> outcome.requests,
                                             success |-> outcome.success,
                                             error |-> outcome.error])
            /\ results' = Tally(results, request_id, outcome, DecidedStatus(bulk_action))
    /\ bulk_idx' = bulk_idx + 1
    /\ UNCHANGED <<bulk_action, request_ids, bulk_pc>>
    /\ UNCHANGED <<vars, fetch_vars, extract_vars, api_vars>>
    /\ UNCHANGED <<cpas_vars, onboarding_vars, wizard_vars>>

\* `return results` after the loop.
BulkReturn ==
    /\ bulk_pc = "loop"
    /\ bulk_idx > Len(request_ids)
    /\ bulk_pc' = "done"
    /\ UNCHANGED <<bulk_action, request_ids, bulk_idx, results, attempts>>
    /\ UNCHANGED <<vars, fetch_vars, extract_vars, api_vars>>
    /\ UNCHANGED <<cpas_vars, onboarding_vars, wizard_vars>>

BulkNext ==
    \/ BulkAttempt
    \/ BulkReturn

BulkSpec == BulkInit /\ [][BulkNext]_bulk_vars

\* C29: the requests are attempted one by one in input order, each once,
\* whatever the outcome of the earlier ones, by one HTTP request addressed
\* to the request id; details[i] describes request_ids[i], with the status
\* approved or rejected when it succeeded and the status failed and the
\* error otherwise; and on return
\* successful + failed = total = len(request_ids) = len(details).
C29_EveryRequestAttempted ==
    /\ Len(attempts) = bulk_idx - 1
    /\ Len(attempts) <= Len(request_ids)
    /\ results.total = Len(request_ids)
    /\ Len(results.details) = Len(attempts)
    /\ results.successful + results.failed = Len(attempts)
    /\ results.successful = Cardinality({i \in 1..Len(attempts) : attempts[i].success})
    /\ \A i \in 1..Len(attempts) :
           /\ attempts[i].id = request_ids[i]
           /\ Len(attempts[i].requests) = 1
           /\ attempts[i].requests[1].params = [request_status |-> <<bulk_action>>]
           /\ results.details[i] =
                  IF attempts[i].success
                  THEN [id |-> request_ids[i], status |-> DecidedStatus(bulk_action)]
                  ELSE [id |-> request_ids[i], status |-> <<"failed">>,
                        error |-> attempts[i].error]
    /\ bulk_pc = "done" =>
           /\ Len(attempts) = Len(request_ids)
           /\ results.successful + results.failed = results.total
           /\ Len(results.details) = results.total

\* A bulk rejection of three requests, one of them twice, returned after
\* its first request failed and the later ones succeeded.
C29_Witness ==
    /\ bulk_pc = "done"
    /\ bulk_action = "reject"
    /\ Len(request_ids) = 3
    /\ request_ids[1] = request_ids[3]
    /\ ~attempts[1].success
    /\ attempts[2].success
    /\ attempts[3].success
    /\ results.failed = 1

(***************************************************************************)
(* The merchant UI: the brand self-service wizard                          *)
(***************************************************************************)
\* st.session_state after init_session_state: the keys it holds are kept.
init_session_state(state) ==
    state @@ [merchant_validated |-> False, selected_requests |-> <<>>,
              brand_onboarding_step |-> 1]

\* The keys Start Over deletes.
BrandKeys ==
    {"brand_token", "brand_bm_id", "brand_request_id", "brand_ad_account_id",
     "brand_catalog_id"}

\* state with the keys of new set to their values.
SetKeys(state, new) == new @@ state

\* state after `del st.session_state[key]` for the keys it holds.
DeleteKeys(state, keys) == [k \in DOMAIN state \ keys |-> state[k]]

\* st.session_state.get(key)
StateGet(state, key) == IF key \in DOMAIN state THEN state[key] ELSE None

\* [requests, id, error] of send_collaboration_request.
send_collaboration_request(brand_business_id, merchant_business_id, contact_email, contact_name, requester_type, response) ==
    LET endpoint == brand_business_id \o <<"/", "collaborative_ads_collaboration_requests">>
        params == [brands |-> merchant_business_id, contact_email |-> contact_email,
                   contact_name |-> contact_name,
                   requester_agency_or_brand |-> requester_type]
        result == make_api_request(endpoint, "POST", params, NoneDict, response)
    IN [requests |-> result.requests]
           @@ IdOrError(result, <<"Request ID not found in response">>)

\* [requests, id, error] of create_ad_account with the default timezone and
\* currency.
create_ad_account(business_id, name, response) ==
    LET endpoint == business_id \o <<"/", "adaccount">>
        params == [name |-> name, timezone_id |-> <<"50">>, currency |-> <<"INR">>,
                   end_advertiser |-> business_id, media_agency |-> business_id,
                   partner |-> <<"NONE">>]
        result == make_api_request(endpoint, "POST", params, NoneDict, response)
    IN [requests |-> result.requests]
           @@ IdOrError(result, <<"Ad account ID not found in response">>)

\* The dict brand_check_request_status returns.
brand_check_request_status(brand_business_id, merchant_business_id, response) ==
    LET sent == get_collaboration_requests(brand_business_id, response)
        found == AddressedTo(sent.list, merchant_business_id)
    IN IF Truthy(sent.error)
       THEN [status |-> <<"error">>, message |-> sent.error]
       ELSE IF found # {}
       THEN LET request == sent.list[CHOOSE k \in found : \A j \in found : k <= j]
            IN [status |-> GetOr(request, "request_status", <<"unknown">>),
                request_id |-> Get(request, "id"),
                created_time |-> Get(request, "created_time")]
       ELSE [status |-> <<"not_found">>,
             message |-> <<"No collaboration request found for this merchant">>]

\* What the text inputs of the form of step 1 hold: each is empty or filled.
BrandForms ==
    [brand_bm_id : {<<>>, <<"brand_bm">>}, brand_name_input : {<<>>, <<"Brand">>},
     brand_email : {<<>>, <<"brand@example.com">>}, brand_contact : {<<>>, <<"Contact">>},
     brand_token : {<<>>, <<"brand_token">>}]

\* The merchant id of the sidebar: not entered, or entered.
SidebarMerchants == {<<>>, <<"merchant_bm">>}

\* The brand's requests as the API lists them.
BrandRequestLists ==
    {<<>>} \cup
    {<<[id |-> <<"req_1">>, receiver_business |-> [id |-> <<"merchant_bm">>],
        request_status |-> <<st>>]>> : st \in {"PENDING", "APPROVED", "REJECTED"}}

\* The catalog segments as the API lists them.
CatalogLists ==
    {<<>>, <<[id |-> <<"cat_1">>, name |-> <<"Segment">>], [id |-> <<"cat_2">>]>>}

\* The step the wizard shows.
Step == session_state["brand_onboarding_step"]

\* A button or form and its outcome: called says that the remote operation
\* behind it was called, err is the error it returned.
Event(widget, called, err) == [widget |-> widget, called |-> called, err |-> err]

WizardInit ==
    /\ CsvIdle
    /\ FetchIdle
    /\ ExtractIdle
    /\ ApiIdle
    /\ CpasIdle
    /\ OnboardingIdle
    /\ BulkIdle
    /\ session_state = init_session_state(EmptyDict)
    /\ merchant_bm_id \in SidebarMerchants
    /\ wizard_event = Event("open", FALSE, None)

\* The user edits the merchant id of the sidebar; the script runs again.
EditSidebar ==
    /\ \E m \in SidebarMerchants : merchant_bm_id' = m
    /\ session_state' = init_session_state(session_state)
    /\ wizard_event' = Event("Merchant Business Manager ID", FALSE, None)
    /\ UNCHANGED <<vars, fetch_vars, extract_vars, api_vars>>
    /\ UNCHANGED <<cpas_vars, onboarding_vars, bulk_vars>>

\* Mutant of AllFilled: one filled field is enough.
AnyFilled(form) == \E k \in DOMAIN form : Truthy(form[k])

\* all([brand_bm_id, brand_name_input, brand_email, brand_contact, brand_token])
AllFilled(form) == \A k \in DOMAIN form : Truthy(form[k])

\* Step 1: the form is submitted.
SubmitRequest ==
    /\ Step = 1
    /\ \E form \in BrandForms, response \in CreateResponses(<<"req_1">>) :
         IF ~AllFilled(form) \/ ~Truthy(merchant_bm_id)
         THEN /\ wizard_event' = Event("Submit Request", FALSE, None)
              /\ session_state' = init_session_state(session_state)
         ELSE LET result == send_collaboration_request(
                                form.brand_bm_id, merchant_bm_id, form.brand_email,
                                form.brand_contact, <<"BRAND">>, response)
              IN /\ wizard_event' = Event("Submit Request", TRUE, result.error)
                 /\ session_state' =
                        IF Truthy(result.error)
                        THEN init_session_state(session_state)
                        ELSE SetKeys(init_session_state(session_state),
                                     [brand_onboarding_step |-> 2,
                                      brand_request_id |-> result.id,
                                      brand_token |-> form.brand_token,
                                      brand_bm_id |-> form.brand_bm_id])
    /\ UNCHANGED merchant_bm_id
    /\ UNCHANGED <<vars, fetch_vars, extract_vars, api_vars>>
    /\ UNCHANGED <<cpas_vars, onboarding_vars, bulk_vars>>

\* brand_token and brand_bm_id are stored and not empty.
HasCredentials ==
    /\ Truthy(StateGet(session_state, "brand_token"))
    /\ Truthy(StateGet(session_state, "brand_bm_id"))

\* Step 2: Check Status.
CheckStatus ==
    /\ Step = 2
    /\ HasCredentials
    /\ Truthy(merchant_bm_id)
    /\ \E response \in ListResponses(BrandRequestLists) :
         LET request_status ==
                 brand_check_request_status(session_state["brand_bm_id"],
                                            merchant_bm_id, response)
         IN /\ wizard_event' = Event("Check Status", TRUE, Get(request_status, "message"))
            /\ session_state' =
                   IF Get(request_status, "status") = <<"APPROVED">>
                   THEN SetKeys(init_session_state(session_state),
                                [brand_onboarding_step |-> 3])
                   ELSE init_session_state(session_state)
    /\ UNCHANGED merchant_bm_id
    /\ UNCHANGED <<vars, fetch_vars, extract_vars, api_vars>>
    /\ UNCHANGED <<cpas_vars, onboarding_vars, bulk_vars>>

\* Steps 2, 3 and 4: Skip to Next Step (Demo).
SkipToNextStep ==
    /\ Step \in {2, 3, 4}
    /\ session_state' = SetKeys(init_session_state(session_state),
                                [brand_onboarding_step |-> Step + 1])
    /\ wizard_event' = Event("Skip to Next Step (Demo)", FALSE, None)
    /\ UNCHANGED merchant_bm_id
    /\ UNCHANGED <<vars, fetch_vars, extract_vars, api_vars>>
    /\ UNCHANGED <<cpas_vars, onboarding_vars, bulk_vars>>

\* Step 3: Create Ad Account.
CreateAdAccount ==
    /\ Step = 3
    /\ HasCredentials
    /\ \E response \in CreateResponses(<<"act_999">>) :
         LET result == create_ad_account(session_state["brand_bm_id"],
                                         <<"CPAS - ", "Merchant">>, response)
         IN /\ wizard_event' = Event("Create Ad Account", TRUE, result.error)
            /\ session_state' =
                   IF Truthy(result.error)
                   THEN init_session_state(session_state)
                   ELSE SetKeys(init_session_state(session_state),
                                [brand_ad_account_id |-> result.id,
                                 brand_onboarding_step |-> 4])
    /\ UNCHANGED merchant_bm_id
    /\ UNCHANGED <<vars, fetch_vars, extract_vars, api_vars>>
    /\ UNCHANGED <<cpas_vars, onboarding_vars, bulk_vars>>

\* Step 4: Use This Catalog, shown when the catalogs were loaded.
UseThisCatalog ==
    /\ Step = 4
    /\ HasCredentials
    /\ \E response \in ListResponses(CatalogLists) :
         LET catalogs == get_shared_catalog_segments(session_state["brand_bm_id"], response)
         IN /\ ~Truthy(catalogs.error)
            /\ Len(catalogs.list) > 0
            /\ \E i \in 1..Len(catalogs.list) :
                 session_state' = SetKeys(init_session_state(session_state),
                                          [brand_catalog_id |-> Get(catalogs.list[i], "id"),
                                           brand_onboarding_step |-> 5])
    /\ wizard_event' = Event("Use This Catalog", TRUE, None)
    /\ UNCHANGED merchant_bm_id
    /\ UNCHANGED <<vars, fetch_vars, extract_vars, api_vars>>
    /\ UNCHANGED <<cpas_vars, onboarding_vars, bulk_vars>>

\* Step 5: the campaign form is submitted, the ad account and the catalog
\* being those of the session or typed in; nothing is stored.
CreateCampaign ==
    /\ Step = 5
    /\ \E typed_account, typed_catalog \in {<<>>, <<"typed">>} :
         LET ad_account_id == OrElse(StateGet(session_state, "brand_ad_account_id"),
                                     typed_account)
             catalog_id == OrElse(StateGet(session_state, "brand_catalog_id"),
                                  typed_catalog)
             complete == /\ Truthy(StateGet(session_state, "brand_token"))
                         /\ Truthy(ad_account_id)
                         /\ Truthy(catalog_id)
         IN wizard_event' =
                Event("Create Campaign (PAUSED)", complete,
                      IF complete THEN None ELSE <<"Missing required information">>)
    /\ session_state' = init_session_state(session_state)
    /\ UNCHANGED merchant_bm_id
    /\ UNCHANGED <<vars, fetch_vars, extract_vars, api_vars>>
    /\ UNCHANGED <<cpas_vars, onboarding_vars, bulk_vars>>

\* Step 5: Start Over.
StartOver ==
    /\ Step = 5
    /\ session_state' = DeleteKeys(SetKeys(init_session_state(session_state),
                                           [brand_onboarding_step |-> 1]),
                                   BrandKeys)
    /\ wizard_event' = Event("Start Over", FALSE, None)
    /\ UNCHANGED merchant_bm_id
    /\ UNCHANGED <<vars, fetch_vars, extract_vars, api_vars>>
    /\ UNCHANGED <<cpas_vars, onboarding_vars, bulk_vars>>

WizardNext ==
    \/ EditSidebar
    \/ SubmitRequest
    \/ CheckStatus
    \/ SkipToNextStep
    \/ CreateAdAccount
    \/ UseThisCatalog
    \/ CreateCampaign
    \/ StartOver

WizardSpec == WizardInit /\ [][WizardNext]_wizard_vars

\* C30: the step is always in 1..5, and from step 2 on brand_token and
\* brand_bm_id are stored and not empty.  The step changes only by
\* increasing by one, or from 5 to 1 by Start Over; Start Over leaves none
\* of brand_token, brand_bm_id, brand_request_id, brand_ad_account_id and
\* brand_catalog_id in the session; and step 2 is entered only by a
\* submission of the form whose collaboration request was sent and returned
\* no error.
C30_WizardSteps ==
    /\ [](/\ Step \in 1..5
          /\ Step >= 2 =>
                 /\ {"brand_token", "brand_bm_id"} \subseteq DOMAIN session_state
                 /\ HasCredentials)
    /\ [][/\ Step' # Step =>
               \/ Step' = Step + 1
               \/ Step = 5 /\ Step' = 1 /\ wizard_event'.widget = "Start Over"
          /\ wizard_event'.widget = "Start Over" =>
               /\ Step = 5
               /\ Step' = 1
               /\ DOMAIN session_state' \cap BrandKeys = {}
          /\ (Step = 1 /\ Step' = 2) =>
               /\ wizard_event' = Event("Submit Request", TRUE, None)
               /\ Truthy(merchant_bm_id)]_wizard_vars

\* The wizard went through its five steps and Start Over was pressed: it
\* shows step 1 and the session holds none of the brand's keys.
C30_Witness ==
    /\ wizard_event = Event("Start Over", FALSE, None)
    /\ Step = 1
    /\ DOMAIN session_state \cap BrandKeys = {}
    /\ Truthy(merchant_bm_id)

====
